---- MODULE Spec2Model ----
(***************************************************************************)
(* Multi-endpoint request execution of the schema-registry client.        *)
(*                                                                         *)
(* A configuration is built (url, basic_auth, bearer_auth, proxy, headers), *)
(* a client is constructed from it (from_conf, from_url), a facade         *)
(* operation builds one boxed future per configured                        *)
(* URL and hands the list to exec_calls, which races them with             *)
(* futures::future::select_ok.  The transport (reqwest/hyper and the       *)
(* remote registries) is the environment: response headers and bodies      *)
(* arrive, or fail, at any moment after a request has been issued.         *)
(***************************************************************************)
EXTENDS Integers, Sequences, FiniteSets, TLC

(* ---------------------------------------------------------------- bounds *)
MaxUrls == 2
\* builder calls made on one configuration value
MaxChain == 3
\* facade calls made on one client
MaxCalls == 2

(* ------------------------------------------------- environment alphabets *)
\* base URLs a caller may configure; "::bad" is not a parseable URL
UrlSet == {"http://r1", "::bad"}
\* proxy settings a caller may supply (None: no proxy); "::bad" is rejected
\* by Proxy::all
ProxySet == {"None", "http://proxy", "::bad"}
\* status codes the registries answer with
StatusSet == {200, 404}
\* response bodies: two JSON arrays of strings and one text that is not JSON
BodySet == {"[s1]", "[s2]", "junk"}
\* statuses and bodies handed to parse_response on its own: both ends of the
\* success range and their neighbours, and a body that is not valid UTF-8
StatusProbe == {100, 199, 200, 201, 204, 299, 300, 301, 400, 404, 500, 599}
BodyProbe == BodySet \cup {"<ff>"}

Ids == 1..MaxUrls

(* ---------------------------------------------------------------- values *)
NoUrl == ""
NoVal == <<>>

NoRes ==
    [kind |-> "None", variant |-> "-", val |-> NoVal, url |-> NoUrl,
     status |-> 0, body |-> "-", target |-> "-", src |-> 0]

OkRes(v, i) == [NoRes EXCEPT !.kind = "Ok", !.val = v, !.src = i]

Unexpected(i) == [NoRes EXCEPT !.kind = "Err", !.variant = "Unexpected", !.src = i]

\* std::any::type_name::<Vec<String>>()
TargetType == "alloc::vec::Vec<alloc::string::String>"

JsonParse(b, t, i) ==
    [NoRes EXCEPT !.kind = "Err", !.variant = "JsonParse", !.body = b,
                  !.target = t, !.src = i]

UpstreamError(u, s, b, i) ==
    [NoRes EXCEPT !.kind = "Err", !.variant = "UpstreamError", !.url = u,
                  !.status = s, !.body = b, !.src = i]

Panic == [NoRes EXCEPT !.kind = "Panic"]

(* ------------------------------------------------------------- variables *)
VARIABLES
    conf,      \* the SchemaRegistryConfig under construction
    client,    \* the SchemaRegistryClient, once from_conf has run
    ex,        \* the logical call: the exec_calls future and its operations
    ex2,       \* the same logical call issued with two list positions swapped
    net,       \* per endpoint operation: what the transport has received
    woken,     \* the task's waker has fired since the last poll
    returned,  \* what the facade method has returned to the caller
    ncalls,    \* how many facade calls were made on the client so far
    pin,       \* the input handed to a function that is run on its own
    pout,      \* what the function made of it
    registry,  \* the schemas a registry has stored, by id
    caller     \* the locals of a program that registers and then fetches

vars == <<conf, client, ex, ex2, net, woken, returned, ncalls, pin, pout, registry, caller>>

\* the program has registered nothing yet
NoCaller == [step |-> "start"]

(* --------------------------------------------------------- configuration *)
\* Option::None of an optional string argument or field
None == "None"

\* user names, passwords and tokens a caller may supply (None: no value);
\* "tok\n" holds a byte that HeaderValue::from_str rejects
UserSet == {None, "user"}
PassSet == {None, "pw"}
TokenSet == {None, "tok", "tok\n"}
\* header maps a caller may supply: a well-formed one, one with a malformed
\* name, one with a malformed value
HeaderSet == {{<<"x-app", "a">>}, {<<"bad name", "a">>}, {<<"x-app", "a\n">>}}

\* enum Authentication, and Option::None of it
NoAuth == [kind |-> "None", token |-> None, username |-> None, password |-> None]
Bearer(t) == [NoAuth EXCEPT !.kind = "Bearer", !.token = t]
Basic(u, p) == [NoAuth EXCEPT !.kind = "Basic", !.username = u, !.password = p]

\* Option<HashMap<String, String>>
NoHeaders == [some |-> FALSE, map |-> {}]
SomeHeaders(h) == [some |-> TRUE, map |-> h]

\* the warn! lines of the builder
WarnOverwrite == "Overwriting existing authentication configuration"
WarnNoUser == "Basic auth not applied, provided username is none"
WarnNoToken == "Bearer auth not applied, provided token is none"

\* SchemaRegistryConfig::new(); `chain` records the builder calls made on the
\* value so far and `warns` the warnings logged by the latest of them
NewConf ==
    [state |-> "building", urls |-> <<>>, authentication |-> NoAuth,
     proxy |-> None, headers |-> NoHeaders, chain |-> <<>>, warns |-> {}]

\* the configuration after it was moved into from_conf
MovedConf == [NewConf EXCEPT !.state = "moved"]

\* replaces the list instead of pushing to it
url_replace(c, u) ==
    [c EXCEPT !.urls = <<u>>, !.warns = {}]

\* SchemaRegistryConfig::url
url(c, u) ==
    [c EXCEPT !.urls = Append(@, u), !.warns = {}]

\* keeps the authentication that was configured first
basic_auth_keep_first(c, username, password) ==
    LET w == IF c.authentication # NoAuth THEN {WarnOverwrite} ELSE {}
    IN  IF username = None
        THEN [c EXCEPT !.warns = w \cup {WarnNoUser}]
        ELSE IF c.authentication # NoAuth
        THEN [c EXCEPT !.warns = w]
        ELSE [c EXCEPT !.authentication = Basic(username, password), !.warns = w]

\* SchemaRegistryConfig::basic_auth
basic_auth(c, username, password) ==
    LET w == IF c.authentication # NoAuth THEN {WarnOverwrite} ELSE {}
    IN  IF username = None
        THEN [c EXCEPT !.warns = w \cup {WarnNoUser}]
        ELSE [c EXCEPT !.authentication = Basic(username, password), !.warns = w]

\* a missing token clears the authentication that was configured
bearer_auth_clear(c, token) ==
    LET w == IF c.authentication # NoAuth THEN {WarnOverwrite} ELSE {}
    IN  IF token = None
        THEN [c EXCEPT !.authentication = NoAuth, !.warns = w \cup {WarnNoToken}]
        ELSE [c EXCEPT !.authentication = Bearer(token), !.warns = w]

\* SchemaRegistryConfig::bearer_auth
bearer_auth(c, token) ==
    LET w == IF c.authentication # NoAuth THEN {WarnOverwrite} ELSE {}
    IN  IF token = None
        THEN [c EXCEPT !.warns = w \cup {WarnNoToken}]
        ELSE [c EXCEPT !.authentication = Bearer(token), !.warns = w]

\* SchemaRegistryConfig::proxy: the field becomes the argument, None included
proxy(c, p) ==
    [c EXCEPT !.proxy = p, !.warns = {}]

\* SchemaRegistryConfig::headers: the field becomes Some(map of the pairs)
headers(c, h) ==
    [c EXCEPT !.headers = SomeHeaders(h), !.warns = {}]

\* one builder call on the configuration value
Built(c, call) ==
    [c EXCEPT !.chain = Append(@, call)]

Url(u) ==
    /\ conf.state = "building"
    /\ Len(conf.chain) < MaxChain
    /\ Len(conf.urls) < MaxUrls
    /\ conf' = Built(url(conf, u), <<"url", u>>)
    /\ UNCHANGED <<client, ex, ex2, net, woken, returned, ncalls, pin, pout, registry, caller>>

BasicAuth(u, p) ==
    /\ conf.state = "building"
    /\ Len(conf.chain) < MaxChain
    /\ conf' = Built(basic_auth(conf, u, p), <<"basic_auth", u, p>>)
    /\ UNCHANGED <<client, ex, ex2, net, woken, returned, ncalls, pin, pout, registry, caller>>

BearerAuth(t) ==
    /\ conf.state = "building"
    /\ Len(conf.chain) < MaxChain
    /\ conf' = Built(bearer_auth(conf, t), <<"bearer_auth", t>>)
    /\ UNCHANGED <<client, ex, ex2, net, woken, returned, ncalls, pin, pout, registry, caller>>

Proxy(p) ==
    /\ conf.state = "building"
    /\ Len(conf.chain) < MaxChain
    /\ conf' = Built(proxy(conf, p), <<"proxy", p>>)
    /\ UNCHANGED <<client, ex, ex2, net, woken, returned, ncalls, pin, pout, registry, caller>>

Headers(h) ==
    /\ conf.state = "building"
    /\ Len(conf.chain) < MaxChain
    /\ conf' = Built(headers(conf, h), <<"headers", h>>)
    /\ UNCHANGED <<client, ex, ex2, net, woken, returned, ncalls, pin, pout, registry, caller>>

\* HeaderName::from_str / HeaderValue::from_str: which texts they accept
HeaderNameOk(n) == n # "bad name"
HeaderValueOk(v) == v \notin {"a\n", "tok\n"}

Ok(v) == [err |-> None, val |-> v]
Err(e) == [err |-> e, val |-> {}]

\* build_headers: the first malformed name or value ends it; a name is
\* inserted as HeaderName::from_str gives it, in lower case
build_headers(h) ==
    LET lower(n) == IF n = "Authorization" THEN "authorization" ELSE n
    IN  IF \E nv \in h : ~HeaderNameOk(nv[1]) THEN Err("InvalidHeaderName")
        ELSE IF \E nv \in h : ~HeaderValueOk(nv[2]) THEN Err("InvalidHeaderValue")
        ELSE Ok({<<lower(nv[1]), nv[2]>> : nv \in h})

\* the bytes of the credentials a caller may supply
Utf8(t) ==
    CASE t = "" -> <<>>
      [] t = "a" -> <<97>>
      [] t = "b" -> <<98>>
      [] t = "p" -> <<112>>
      [] t = "u" -> <<117>>
      [] t = "ab" -> <<97, 98>>
      [] t = "me" -> <<109, 101>>
      [] t = "pw" -> <<112, 119>>
      [] t = "user" -> <<117, 115, 101, 114>>
      [] t = "pass" -> <<112, 97, 115, 115>>

\* the alphabet of BASE64_STANDARD
Base64Alphabet ==
    <<"A", "B", "C", "D", "E", "F", "G", "H", "I", "J", "K", "L", "M",
      "N", "O", "P", "Q", "R", "S", "T", "U", "V", "W", "X", "Y", "Z",
      "a", "b", "c", "d", "e", "f", "g", "h", "i", "j", "k", "l", "m",
      "n", "o", "p", "q", "r", "s", "t", "u", "v", "w", "x", "y", "z",
      "0", "1", "2", "3", "4", "5", "6", "7", "8", "9", "+", "/">>

Sextet(n) == Base64Alphabet[n + 1]

\* EncoderWriter over BASE64_STANDARD: three bytes make four characters, and
\* a last group of one or two bytes is padded with '='
RECURSIVE Base64Encode(_)
Base64Encode(bs) ==
    IF Len(bs) = 0 THEN ""
    ELSE IF Len(bs) = 1
    THEN Sextet(bs[1] \div 4) \o Sextet((bs[1] % 4) * 16) \o "=="
    ELSE IF Len(bs) = 2
    THEN Sextet(bs[1] \div 4) \o Sextet((bs[1] % 4) * 16 + bs[2] \div 16)
         \o Sextet((bs[2] % 16) * 4) \o "="
    ELSE Sextet(bs[1] \div 4) \o Sextet((bs[1] % 4) * 16 + bs[2] \div 16)
         \o Sextet((bs[2] % 16) * 4 + bs[3] \div 64) \o Sextet(bs[3] % 64)
         \o Base64Encode(SubSeq(bs, 4, Len(bs)))

\* BASE64_STANDARD of "<username>:" followed by the password, if any
Base64(u, p) ==
    Base64Encode(Utf8(u) \o <<58>> \o (IF p = None THEN <<>> ELSE Utf8(p)))

\* the credentials are written as they are, without the encoder
build_auth_headers_unencoded(a) ==
    IF a.kind = "Bearer"
    THEN IF HeaderValueOk(a.token)
         THEN Ok(<<"authorization", "Bearer " \o a.token>>)
         ELSE Err("InvalidHeaderValue")
    ELSE Ok(<<"authorization",
              "Basic " \o a.username \o ":"
              \o (IF a.password = None THEN "" ELSE a.password)>>)

\* build_auth_headers: HeaderValue::from_str of "Bearer <token>", or the
\* base64 text of "<username>:<password>", which is always a valid value
build_auth_headers(a) ==
    IF a.kind = "Bearer"
    THEN IF HeaderValueOk(a.token)
         THEN Ok(<<"authorization", "Bearer " \o a.token>>)
         ELSE Err("InvalidHeaderValue")
    ELSE Ok(<<"authorization", "Basic " \o Base64(a.username, a.password)>>)

\* build_proxy: Proxy::all fails on a malformed proxy URL
build_proxy(p) == p # "::bad"

\* reports a client although the proxy could not be built
build_http_client_lenient(c, tls) ==
    LET hs == IF c.headers.some THEN build_headers(c.headers.map) ELSE Ok({})
        au == IF c.authentication = NoAuth THEN Ok(<<>>)
              ELSE build_auth_headers(c.authentication)
    IN  IF hs.err # None THEN Err(hs.err)
        ELSE IF au.err # None THEN Err(au.err)
        ELSE IF ~tls THEN Err("Proxy")
        ELSE Ok(IF au.val = <<>> THEN hs.val
                ELSE {nv \in hs.val : nv[1] # au.val[1]} \cup {au.val})

\* the static headers are inserted over the authentication header
build_http_client_auth_first(c, tls) ==
    LET hs == IF c.headers.some THEN build_headers(c.headers.map) ELSE Ok({})
        au == IF c.authentication = NoAuth THEN Ok(<<>>)
              ELSE build_auth_headers(c.authentication)
    IN  IF hs.err # None THEN Err(hs.err)
        ELSE IF au.err # None THEN Err(au.err)
        ELSE IF c.proxy # None /\ ~build_proxy(c.proxy) THEN Err("Proxy")
        ELSE IF ~tls THEN Err("Proxy")
        ELSE Ok(IF au.val = <<>> \/ \E nv \in hs.val : nv[1] = au.val[1]
                THEN hs.val ELSE hs.val \cup {au.val})

\* build_http_client: the static headers, then the authentication header
\* inserted over them, then the proxy, then ClientBuilder::build, which
\* fails when the transport backend cannot be set up (tls = FALSE).  The
\* value of a success is the default header map of the client.
build_http_client(c, tls) ==
    LET hs == IF c.headers.some THEN build_headers(c.headers.map) ELSE Ok({})
        au == IF c.authentication = NoAuth THEN Ok(<<>>)
              ELSE build_auth_headers(c.authentication)
    IN  IF hs.err # None THEN Err(hs.err)
        ELSE IF au.err # None THEN Err(au.err)
        ELSE IF c.proxy # None /\ ~build_proxy(c.proxy) THEN Err("Proxy")
        ELSE IF ~tls THEN Err("Proxy")
        ELSE Ok(IF au.val = <<>> THEN hs.val
                ELSE {nv \in hs.val : nv[1] # au.val[1]} \cup {au.val})

NoClient == [state |-> "none", urls |-> <<>>, err |-> None]

\* SchemaRegistryClient::from_conf: Self { http, urls }, or the
\* configuration error of build_http_client.  The reqwest::Client is an
\* opaque handle; the client keeps no other state.
from_conf(c, tls) ==
    LET http == build_http_client(c, tls)
    IN  IF http.err = None
        THEN [state |-> "built", urls |-> c.urls, err |-> None]
        ELSE [state |-> "failed", urls |-> <<>>, err |-> http.err]

\* SchemaRegistryClient::from_url
from_url(u, tls) == from_conf(url(NewConf, u), tls)

FromConf(tls) ==
    /\ conf.state = "building"
    /\ client' = from_conf(conf, tls)
    /\ conf' = MovedConf
    /\ UNCHANGED <<ex, ex2, net, woken, returned, ncalls, pin, pout, registry, caller>>

\* from_url is called instead of building a configuration
FromUrl(u, tls) ==
    /\ conf = NewConf
    /\ client' = from_url(u, tls)
    /\ conf' = MovedConf
    /\ UNCHANGED <<ex, ex2, net, woken, returned, ncalls, pin, pout, registry, caller>>

(* ------------------------------------------------- the facade operations *)
\* Display of bool and of u32, as format! renders them
Bool(b) == IF b THEN "true" ELSE "false"

Digit == <<"0", "1", "2", "3", "4", "5", "6", "7", "8", "9">>

RECURSIVE U32(_)
U32(n) == IF n < 10 THEN Digit[n + 1] ELSE U32(n \div 10) \o Digit[(n % 10) + 1]

\* enum Version and its Display
Latest == [kind |-> "Latest", n |-> 0]
Number(n) == [kind |-> "Number", n |-> n]
VersionStr(v) == IF v.kind = "Latest" THEN "latest" ELSE U32(v.n)

\* enum SchemaType and the names serde gives its variants
\* (rename_all = "SCREAMING_SNAKE_CASE")
SchemaTypes == {"Avro", "Protobuf", "Json"}

ScreamingSnake(t) ==
    IF t = "Avro" THEN "AVRO" ELSE IF t = "Protobuf" THEN "PROTOBUF" ELSE "JSON"

\* Option<Vec<Reference>>; Reference::new(name, subject) has version 1
NoRefs == <<>>
AuthorRef == <<[name |-> "Author", subject |-> "s", version |-> 1]>>

\* UnregisteredSchema::schema(text).schema_type(t).references(refs)
UnregisteredSchema(text, t, refs) ==
    [schema |-> text, schema_type |-> t, references |-> refs]

\* the members keep the names of the struct's fields
SerializeSnakeCase(s) ==
    IF s.references = NoRefs
    THEN [schema |-> s.schema, schema_type |-> ScreamingSnake(s.schema_type)]
    ELSE [schema |-> s.schema, schema_type |-> ScreamingSnake(s.schema_type),
          references |-> s.references]

\* A JSON object is a record of its members. serde_json of an
\* UnregisteredSchema: camelCase names, `references` left out when it is None
Serialize(s) ==
    IF s.references = NoRefs
    THEN [schema |-> s.schema, schemaType |-> ScreamingSnake(s.schema_type)]
    ELSE [schema |-> s.schema, schemaType |-> ScreamingSnake(s.schema_type),
          references |-> s.references]

\* the arguments a caller may pass
SubjectSet == {"s"}
VersionSet == {Latest, Number(1), Number(12)}
SchemaSet ==
    {UnregisteredSchema(text, t, refs) :
        text \in {"A", "B"}, t \in SchemaTypes, refs \in {NoRefs, AuthorRef}}
IdSet == {1, 2}
NameSet == {"e"}

\* the body of a request: none, or the JSON given to RequestBuilder::json
NoBody == [some |-> FALSE]
Json(j) == [some |-> TRUE, json |-> j]

VND_SCHEMA_REGISTRY_V1_JSON == "application/vnd.schemaregistry.v1+json"

\* .header(header::ACCEPT, VND_SCHEMA_REGISTRY_V1_JSON)
Accept == {<<"accept", VND_SCHEMA_REGISTRY_V1_JSON>>}

\* what a facade method fixes for all its endpoint operations: the HTTP
\* method, the path appended to each base URL, the headers set on the
\* request, the body, the type the response is decoded to, and the expression
\* it returns
Op(name, method, path, hdrs, body, target, ret) ==
    [name |-> name, method |-> method, path |-> path, headers |-> hdrs,
     body |-> body, target |-> target, ret |-> ret]

NoOp == Op("-", "-", "", {}, NoBody, "-", "-")

\* std::any::type_name of the response types named below
CompatibilityCheckT == "schema_registry::types::CompatibilityCheck"
IdT == "schema_registry::types::Id"
SchemaT == "schema_registry::types::Schema"
UnitT == "()"

is_compatible(subject, version, schema) ==
    Op("is_compatible", "POST", "/compatibility/subjects/" \o subject \o "/versions/" \o VersionStr(version),
       Accept, Json(Serialize(schema)), CompatibilityCheckT, "result.is_compatible")

is_fully_compatible(subject, schema) ==
    Op("is_fully_compatible", "POST", "/compatibility/subjects/" \o subject \o "/versions",
       Accept, Json(Serialize(schema)), CompatibilityCheckT, "result.is_compatible")

pause_exporter(name) ==
    Op("pause_exporter", "PUT", "/exporters/" \o name \o "/pause",
       Accept, NoBody, UnitT, "()")

get_schema_by_id(id) ==
    Op("get_schema_by_id", "GET", "/schemas/ids/" \o U32(id),
       Accept, NoBody, SchemaT, "result")

get_subjects(deleted) ==
    Op("get_subjects", "GET", "/subjects?deleted=" \o Bool(deleted),
       Accept, NoBody, TargetType, "result")

delete_subject(subject, permanent) ==
    Op("delete_subject", "DELETE", "/subjects/" \o subject \o "?permanent=" \o Bool(permanent),
       Accept, NoBody, "alloc::vec::Vec<u32>", "result")

post_new_subject_version(subject, schema, normalize) ==
    Op("post_new_subject_version", "POST", "/subjects/" \o subject \o "/versions?=" \o Bool(normalize),
       Accept, Json(Serialize(schema)), IdT, "result.id")

lookup_subject_schema(subject, schema, normalize) ==
    Op("lookup_subject_schema", "POST", "/subjects/" \o subject \o "?normalize=" \o Bool(normalize),
       Accept, Json(Serialize(schema)), "schema_registry::types::Subject", "result")

\* every facade method of the client, on every argument the alphabets give;
\* a method that is not named above is written out here, with its
\* configuration, exporter settings or mode given as the JSON that serde
\* writes for it
FacadeOps ==
    {is_compatible(subject, version, schema) : subject \in SubjectSet, version \in VersionSet, schema \in SchemaSet}
    \cup
    {is_fully_compatible(subject, schema) : subject \in SubjectSet, schema \in SchemaSet}
    \cup
    {Op("get_configuration", "GET", "/config",
        Accept, NoBody, "schema_registry::types::ClusterConfig", "result")}
    \cup
    {Op("update_configuration", "PUT", "/config",
        Accept, Json(configuration), "schema_registry::types::ClusterConfig", "result") :
        configuration \in {[compatibility |-> "FULL"]}}
    \cup
    {Op("get_subject_configuration", "GET", "/config/" \o subject,
        Accept, NoBody, "schema_registry::types::SubjectConfig", "result") :
        subject \in SubjectSet}
    \cup
    {Op("update_subject_configuration", "PUT", "/config/" \o subject,
        Accept, Json(configuration), "schema_registry::types::SubjectConfig", "result") :
        subject \in SubjectSet, configuration \in {[compatibility |-> "FULL"]}}
    \cup
    {Op("get_exporters", "GET", "/exporters",
        Accept, NoBody, TargetType, "result")}
    \cup
    {Op("get_contexts", "GET", "/contexts",
        Accept, NoBody, TargetType, "result")}
    \cup
    {Op("create_exporter", "POST", "/exporters",
        Accept, Json(config), "alloc::string::String", "result") :
        config \in {[name |-> "e", config |-> [k |-> "v"]]}}
    \cup
    {Op("update_exporter", "PUT", "/exporters/" \o name,
        Accept, Json(config), "alloc::string::String", "result") :
        name \in NameSet, config \in {[name |-> "e", config |-> [k |-> "v"]]}}
    \cup
    {Op("update_exporter_config", "PUT", "/exporters/" \o name \o "/config",
        Accept, Json(config), "alloc::string::String", "result") :
        name \in NameSet, config \in {[k |-> "v"]}}
    \cup
    {Op("get_exporter", "GET", "/exporters/" \o name,
        Accept, NoBody, "schema_registry::types::ExporterConfig", "result") :
        name \in NameSet}
    \cup
    {Op("get_exporter_config", "GET", "/exporters/" \o name \o "/config",
        Accept, NoBody, "std::collections::hash::map::HashMap<alloc::string::String, alloc::string::String>", "result") :
        name \in NameSet}
    \cup
    {Op("get_exporter_status", "GET", "/exporters/" \o name \o "/status",
        Accept, NoBody, "schema_registry::types::ExporterStatus", "result") :
        name \in NameSet}
    \cup
    {pause_exporter(name) : name \in NameSet}
    \cup
    {Op("reset_exporter", "PUT", "/exporters/" \o name \o "/reset",
        Accept, NoBody, UnitT, "()") :
        name \in NameSet}
    \cup
    {Op("resume_exporter", "PUT", "/exporters/" \o name \o "/resume",
        Accept, NoBody, UnitT, "()") :
        name \in NameSet}
    \cup
    {Op("delete_exporter", "DELETE", "/exporters/" \o name,
        Accept, NoBody, UnitT, "()") :
        name \in NameSet}
    \cup
    {Op("get_global_resource_mode", "GET", "/mode",
        Accept, NoBody, "schema_registry::types::ResourceMode", "result.mode")}
    \cup
    {Op("update_global_resource_mode", "PUT", "/mode?force=" \o Bool(force),
        Accept, Json([mode |-> mode]), "schema_registry::types::ResourceMode", "result.mode") :
        mode \in {"READWRITE", "READONLY", "IMPORT"}, force \in BOOLEAN}
    \cup
    {Op("get_subject_resource_mode", "GET", "/mode/" \o subject,
        Accept, NoBody, "schema_registry::types::ResourceMode", "result.mode") :
        subject \in SubjectSet}
    \cup
    {Op("update_subject_resource_mode", "PUT", "/mode/" \o subject \o "?force=" \o Bool(force),
        Accept, Json([mode |-> mode]), "schema_registry::types::ResourceMode", "result.mode") :
        subject \in SubjectSet, mode \in {"READWRITE", "READONLY", "IMPORT"}, force \in BOOLEAN}
    \cup
    {Op("delete_subject_mode", "DELETE", "/mode/" \o subject,
        Accept, NoBody, "schema_registry::types::ResourceMode", "result.mode") :
        subject \in SubjectSet}
    \cup
    {get_schema_by_id(id) : id \in IdSet}
    \cup
    {Op("get_schema_by_id_raw", "GET", "/schemas/ids/" \o U32(id) \o "/schema",
        Accept, NoBody, "schema_registry::types::StringSchema", "result") :
        id \in IdSet}
    \cup
    {Op("get_schemas_types", "GET", "/schemas/types",
        Accept, NoBody, "alloc::vec::Vec<schema_registry::types::SchemaType>", "result")}
    \cup
    {Op("get_schema_subject_versions", "GET", "/schemas/ids/" \o U32(id) \o "/versions",
        Accept, NoBody, "alloc::vec::Vec<schema_registry::types::SubjectVersion>", "result") :
        id \in IdSet}
    \cup
    {get_subjects(deleted) : deleted \in BOOLEAN}
    \cup
    {Op("get_subject_versions", "GET", "/subjects/" \o subject \o "/versions",
        Accept, NoBody, "alloc::vec::Vec<u32>", "result") :
        subject \in SubjectSet}
    \cup
    {delete_subject(subject, permanent) : subject \in SubjectSet, permanent \in BOOLEAN}
    \cup
    {Op("get_subject_version", "GET", "/subjects/" \o subject \o "/versions/" \o VersionStr(version),
        Accept, NoBody, "schema_registry::types::Subject", "result") :
        subject \in SubjectSet, version \in VersionSet}
    \cup
    {Op("get_subject_version_raw", "GET", "/subjects/" \o subject \o "/versions/" \o VersionStr(version) \o "/schema",
        Accept, NoBody, "schema_registry::types::StringSchema", "result") :
        subject \in SubjectSet, version \in VersionSet}
    \cup
    {post_new_subject_version(subject, schema, normalize) : subject \in SubjectSet, schema \in SchemaSet, normalize \in BOOLEAN}
    \cup
    {lookup_subject_schema(subject, schema, normalize) : subject \in SubjectSet, schema \in SchemaSet, normalize \in BOOLEAN}
    \cup
    {Op("delete_subject_version", "DELETE", "/subjects/" \o subject \o "/versions/" \o VersionStr(version) \o "?permanent=" \o Bool(permanent),
        Accept, NoBody, "u32", "result") :
        subject \in SubjectSet, version \in VersionSet, permanent \in BOOLEAN}
    \cup
    {Op("get_subject_version_references", "GET", "/subjects/" \o subject \o "/versions/" \o VersionStr(version) \o "/referencedBy",
        Accept, NoBody, "alloc::vec::Vec<u32>", "result") :
        subject \in SubjectSet, version \in VersionSet}

(* ------------------------------------------------ one endpoint operation *)
\* reqwest parses the request URL when the request is built
UrlParses(u) == u # "::bad"

\* format!("{}<path>", url, ..): the path of the operation appended to the
\* base URL
RequestUrl(o, base) == base \o o.path

\* what the transport is asked to send for operation o at one endpoint:
\* http.<method>(&url).header(..)[.json(body)]; RequestBuilder::json adds
\* the Content-Type of the body

\* no request was handed to the transport
NoReq == [method |-> "-"]

\* the Accept header is set on requests without a body only
RequestAcceptWithoutBody(o, base) ==
    [method |-> o.method, url |-> RequestUrl(o, base),
     headers |-> IF o.body.some THEN {<<"content-type", "application/json">>}
                 ELSE o.headers,
     body |-> o.body]

Request(o, base) ==
    [method |-> o.method, url |-> RequestUrl(o, base),
     headers |-> o.headers
                 \cup (IF o.body.some THEN {<<"content-type", "application/json">>}
                       ELSE {}),
     body |-> o.body]

\* The JSON documents a registry may answer with, as records of their
\* members, and the text each is sent as
\* the JSON value null
JsonNull == [null |-> TRUE]

JsonDocs ==
    {JsonNull}
    \cup {[id |-> n] : n \in IdSet}
    \cup {[is_compatible |-> b] : b \in BOOLEAN}
    \cup {[isCompatible |-> b] : b \in BOOLEAN}
    \cup {[schema |-> text] : text \in {"A", "B"}}
    \cup {[schema |-> text, schemaType |-> n] :
            text \in {"A", "B"}, n \in {"AVRO", "PROTOBUF", "JSON"}}
    \cup {[schema |-> text, references |-> AuthorRef] : text \in {"A", "B"}}
    \cup {[schema |-> text, schemaType |-> n, references |-> AuthorRef] :
            text \in {"A", "B"}, n \in {"AVRO", "PROTOBUF", "JSON"}}
    \cup {[error_code |-> 40401]}

RefText(r) ==
    "{name:" \o r.name \o ",subject:" \o r.subject \o ",version:" \o U32(r.version) \o "}"

JsonText(j) ==
    IF j = JsonNull THEN "null"
    ELSE IF "id" \in DOMAIN j THEN "{id:" \o U32(j.id) \o "}"
    ELSE IF "is_compatible" \in DOMAIN j
    THEN "{is_compatible:" \o Bool(j.is_compatible) \o "}"
    ELSE IF "isCompatible" \in DOMAIN j
    THEN "{isCompatible:" \o Bool(j.isCompatible) \o "}"
    ELSE IF "schema" \in DOMAIN j
    THEN "{schema:" \o j.schema
         \o (IF "schemaType" \in DOMAIN j THEN ",schemaType:" \o j.schemaType ELSE "")
         \o (IF "references" \in DOMAIN j
             THEN ",references:[" \o RefText(j.references[1]) \o "]" ELSE "")
         \o "}"
    ELSE "{error_code:" \o U32(j.error_code) \o "}"

\* serde_json reads a text as the document it is the text of, if any
IsJson(b) == \E j \in JsonDocs : JsonText(j) = b

\* the member isCompatible is read as if it were named is_compatible
JsonOfCamelAlias(b) ==
    LET j == CHOOSE d \in JsonDocs : JsonText(d) = b
    IN  IF "isCompatible" \in DOMAIN j THEN [is_compatible |-> j.isCompatible] ELSE j

JsonOf(b) == CHOOSE j \in JsonDocs : JsonText(j) = b

\* the unit type is satisfied by any JSON value
FitsAnyAsUnit(t, j) ==
    CASE t = UnitT -> TRUE
      [] t = IdT -> "id" \in DOMAIN j
      [] t = CompatibilityCheckT -> "is_compatible" \in DOMAIN j
      [] t = SchemaT ->
            /\ "schema" \in DOMAIN j
            /\ ("schemaType" \in DOMAIN j =>
                    \E v \in SchemaTypes : ScreamingSnake(v) = j.schemaType)

\* Deserialize for the response types, member by member: a struct needs
\* each of its fields under the name serde gives it, except an Option field
\* (None when missing) and a #[serde(default)] field; the unit type needs
\* the value null
Fits(t, j) ==
    CASE t = UnitT -> j = JsonNull
      [] t = IdT -> "id" \in DOMAIN j
      [] t = CompatibilityCheckT -> "is_compatible" \in DOMAIN j
      [] t = SchemaT ->
            /\ "schema" \in DOMAIN j
            /\ ("schemaType" \in DOMAIN j =>
                    \E v \in SchemaTypes : ScreamingSnake(v) = j.schemaType)

Deserialize(t, j) ==
    CASE t = UnitT -> NoVal
      [] t = IdT -> [id |-> j.id]
      [] t = CompatibilityCheckT -> [is_compatible |-> j.is_compatible]
      [] t = SchemaT ->
            [schema_type |->
                IF "schemaType" \in DOMAIN j
                THEN CHOOSE v \in SchemaTypes : ScreamingSnake(v) = j.schemaType
                ELSE "Avro",
             schema |-> j.schema,
             references |->
                IF "references" \in DOMAIN j THEN j.references ELSE NoRefs]


\* serde_json::from_slice::<T>
Parses(t, b) ==
    IF t = TargetType THEN b \in {"[s1]", "[s2]"}
    ELSE IsJson(b) /\ Fits(t, JsonOf(b))

Decode(t, b) ==
    IF t = TargetType
    THEN IF b = "[s1]" THEN <<"s1">> ELSE IF b = "[s2]" THEN <<"s2">> ELSE NoVal
    ELSE Deserialize(t, JsonOf(b))

\* String::from_utf8_lossy: invalid bytes become U+FFFD
Utf8Lossy(b) == IF b = "<ff>" THEN "<U+FFFD>" ELSE b

\* the success range reaches one status too far
parse_response_to300(t, u, s, b, i) ==
    IF s \in 200..300
    THEN IF Parses(t, b) THEN OkRes(Decode(t, b), i) ELSE JsonParse(Utf8Lossy(b), t, i)
    ELSE UpstreamError(u, s, Utf8Lossy(b), i)

\* the body is decoded before the status is looked at
parse_response_decode_first(t, u, s, b, i) ==
    IF ~Parses(t, b) THEN JsonParse(Utf8Lossy(b), t, i)
    ELSE IF s \in 200..299 THEN OkRes(Decode(t, b), i)
    ELSE UpstreamError(u, s, Utf8Lossy(b), i)

\* parse_response, once the body bytes have been read
parse_response(t, u, s, b, i) ==
    IF s \in 200..299
    THEN IF Parses(t, b) THEN OkRes(Decode(t, b), i) ELSE JsonParse(Utf8Lossy(b), t, i)
    ELSE UpstreamError(u, s, Utf8Lossy(b), i)

\* no response was handed to parse_response on its own
NoPin == [url |-> NoUrl, status |-> 0, body |-> "none"]

NoNet == [hdr |-> "none", status |-> 0, body |-> "none", at |-> 0]

\* a request that has no answer by the second poll is given up
PollCallTimeout(e, n, i) ==
    LET base == e.url[i]
        st0  == e.pc[i]
    IN  IF st0 = "new" /\ ~UrlParses(base)
        THEN [pc |-> "done", issued |-> 0, res |-> Unexpected(i)]
        ELSE IF st0 = "new"
        THEN [pc |-> "send", issued |-> 1, res |-> NoRes]
        ELSE IF n[i].hdr = "ok" /\ n[i].body \notin {"none", "err"}
        THEN [pc |-> "done", issued |-> 0,
              res |-> parse_response(e.op.target, RequestUrl(e.op, base), n[i].status, n[i].body, i)]
        ELSE [pc |-> "done", issued |-> 0, res |-> Unexpected(i)]

\* a failed send is reported with the URL it was sent to
PollCallSendAsUpstream(e, n, i) ==
    LET base == e.url[i]
        st0  == e.pc[i]
        bad  == st0 = "new" /\ ~UrlParses(base)
        st1  == IF st0 = "new" /\ ~bad THEN "send" ELSE st0
        st2  == IF st1 = "send" /\ n[i].hdr = "ok" THEN "bytes" ELSE st1
    IN  IF bad
        THEN [pc |-> "done", issued |-> 0, res |-> Unexpected(i)]
        ELSE IF st1 = "send" /\ n[i].hdr = "err"
        THEN [pc |-> "done", issued |-> IF st0 = "new" THEN 1 ELSE 0,
              res |-> UpstreamError(RequestUrl(e.op, base), 0, "", i)]
        ELSE IF st2 = "bytes" /\ n[i].body = "err"
        THEN [pc |-> "done", issued |-> IF st0 = "new" THEN 1 ELSE 0,
              res |-> Unexpected(i)]
        ELSE IF st2 = "bytes" /\ n[i].body # "none"
        THEN [pc |-> "done", issued |-> IF st0 = "new" THEN 1 ELSE 0,
              res |-> parse_response(e.op.target, RequestUrl(e.op, base), n[i].status, n[i].body, i)]
        ELSE [pc |-> st2, issued |-> IF st0 = "new" THEN 1 ELSE 0, res |-> NoRes]

\* a status outside 2xx is reported as soon as the headers have arrived
PollCallEarlyStatus(e, n, i) ==
    LET base == e.url[i]
        st0  == e.pc[i]
        bad  == st0 = "new" /\ ~UrlParses(base)
        st1  == IF st0 = "new" /\ ~bad THEN "send" ELSE st0
        st2  == IF st1 = "send" /\ n[i].hdr = "ok" THEN "bytes" ELSE st1
    IN  IF bad
        THEN [pc |-> "done", issued |-> 0, res |-> Unexpected(i)]
        ELSE IF st1 = "send" /\ n[i].hdr = "err"
        THEN [pc |-> "done", issued |-> IF st0 = "new" THEN 1 ELSE 0,
              res |-> Unexpected(i)]
        ELSE IF st2 = "bytes" /\ n[i].status \notin 200..299
        THEN [pc |-> "done", issued |-> IF st0 = "new" THEN 1 ELSE 0,
              res |-> UpstreamError(RequestUrl(e.op, base), n[i].status, "", i)]
        ELSE IF st2 = "bytes" /\ n[i].body = "err"
        THEN [pc |-> "done", issued |-> IF st0 = "new" THEN 1 ELSE 0,
              res |-> Unexpected(i)]
        ELSE IF st2 = "bytes" /\ n[i].body # "none"
        THEN [pc |-> "done", issued |-> IF st0 = "new" THEN 1 ELSE 0,
              res |-> parse_response(e.op.target, RequestUrl(e.op, base), n[i].status, n[i].body, i)]
        ELSE [pc |-> st2, issued |-> IF st0 = "new" THEN 1 ELSE 0, res |-> NoRes]

\* One poll of the boxed async block of endpoint operation i:
\*   http.get(&url).header(..).send().await?  then  parse_response(response).await
\* It yields the stage the operation is left in, whether the request was
\* issued by this poll, and the result if the operation completed.
PollCall(e, n, i) ==
    LET base == e.url[i]
        st0  == e.pc[i]
        bad  == st0 = "new" /\ ~UrlParses(base)
        st1  == IF st0 = "new" /\ ~bad THEN "send" ELSE st0
        st2  == IF st1 = "send" /\ n[i].hdr = "ok" THEN "bytes" ELSE st1
    IN  IF bad
        THEN [pc |-> "done", issued |-> 0, res |-> Unexpected(i)]
        ELSE IF st1 = "send" /\ n[i].hdr = "err"
        THEN [pc |-> "done", issued |-> IF st0 = "new" THEN 1 ELSE 0,
              res |-> Unexpected(i)]
        ELSE IF st2 = "bytes" /\ n[i].body = "err"
        THEN [pc |-> "done", issued |-> IF st0 = "new" THEN 1 ELSE 0,
              res |-> Unexpected(i)]
        ELSE IF st2 = "bytes" /\ n[i].body # "none"
        THEN [pc |-> "done", issued |-> IF st0 = "new" THEN 1 ELSE 0,
              res |-> parse_response(e.op.target, RequestUrl(e.op, base), n[i].status, n[i].body, i)]
        ELSE [pc |-> st2, issued |-> IF st0 = "new" THEN 1 ELSE 0, res |-> NoRes]

(* ------------------------------------------------------------ the executor *)
NoCall ==
    [phase |-> "idle", inner |-> <<>>, url |-> [i \in Ids |-> ""],
     pc |-> [i \in Ids |-> "none"], attempts |-> [i \in Ids |-> 0],
     res |-> [i \in Ids |-> NoRes], done |-> <<>>, out |-> <<>>, polls |-> 0,
     calls |-> <<>>, op |-> NoOp, req |-> [i \in Ids |-> NoReq]]

\* the facade loop `for url in self.urls.iter() { .. http_calls.push(call) }`:
\* one boxed future per configured URL, in the order given by `order`
\* the operations are built from the last URL to the first
BuildCallsReversed(o, urls, order) ==
    [NoCall EXCEPT !.phase = "pending",
                   !.op = o,
                   !.inner = order,
                   !.calls = order,
                   !.url = [i \in Ids |-> IF i <= Len(urls)
                                          THEN urls[Len(urls) + 1 - i] ELSE ""],
                   !.pc = [i \in Ids |-> IF i <= Len(urls) THEN "new" ELSE "none"]]

BuildCalls(o, urls, order) ==
    [NoCall EXCEPT !.phase = "pending",
                   !.op = o,
                   !.inner = order,
                   !.calls = order,
                   !.url = [i \in Ids |-> IF i <= Len(urls) THEN urls[i] ELSE ""],
                   !.pc = [i \in Ids |-> IF i <= Len(urls) THEN "new" ELSE "none"]]

RemoveAt(s, k) == SubSeq(s, 1, k - 1) \o SubSeq(s, k + 1, Len(s))

\* sequential fallback: only the head of the list is polled
find_map_head(e, n, k) ==
    IF k > Len(e.inner) \/ k > 1
    THEN [e |-> e, idx |-> 0, res |-> NoRes]
    ELSE LET i  == e.inner[k]
             p  == PollCall(e, n, i)
             e1 == [e EXCEPT !.pc[i] = p.pc, !.attempts[i] = @ + p.issued,
                             !.req[i] = IF p.issued = 1
                                        THEN Request(e.op, e.url[i]) ELSE @]
         IN  IF p.res.kind # "None"
             THEN [e |-> [e1 EXCEPT !.res[i] = p.res, !.done = Append(@, i)],
                   idx |-> k, res |-> p.res]
             ELSE [e |-> e1, idx |-> 0, res |-> NoRes]

\* self.inner.iter_mut().enumerate().find_map(|(i, f)| f.try_poll_unpin(cx)):
\* polls the remaining futures in list order from position k and stops at
\* the first one that is ready
RECURSIVE find_map(_, _, _)
find_map(e, n, k) ==
    IF k > Len(e.inner)
    THEN [e |-> e, idx |-> 0, res |-> NoRes]
    ELSE LET i  == e.inner[k]
             p  == PollCall(e, n, i)
             e1 == [e EXCEPT !.pc[i] = p.pc, !.attempts[i] = @ + p.issued,
                             !.req[i] = IF p.issued = 1
                                        THEN Request(e.op, e.url[i]) ELSE @]
         IN  IF p.res.kind # "None"
             THEN [e |-> [e1 EXCEPT !.res[i] = p.res, !.done = Append(@, i)],
                   idx |-> k, res |-> p.res]
             ELSE find_map(e1, n, k + 1)

\* exec_calls after select_ok returned Ok: remaining.into_iter().for_each(drop)
DropRemaining(e) ==
    [e EXCEPT !.pc = [i \in Ids |->
                        IF \E k \in 1..Len(e.inner) : e.inner[k] = i
                        THEN "dropped" ELSE e.pc[i]],
              !.inner = <<>>]

\* the positions of `calls` whose operation completed with a success
OkPositions(e) == {k \in 1..Len(e.calls) : e.res[e.calls[k]].kind = "Ok"}

\* join: every operation is awaited, then the first success in list order
\* is returned, else the last error
RECURSIVE SelectOkPollJoin(_, _)
SelectOkPollJoin(e, n) ==
    LET f == find_map(e, n, 1) IN
    IF f.idx = 0
    THEN f.e
    ELSE LET e1 == [f.e EXCEPT !.inner = RemoveAt(@, f.idx)] IN
         IF e1.inner = <<>>
         THEN LET oks == OkPositions(e1)
                  k   == CHOOSE m \in oks : \A o \in oks : m <= o
              IN  [e1 EXCEPT !.out = Append(@, IF oks = {} THEN f.res
                                                ELSE e1.res[e1.calls[k]]),
                             !.phase = "resolved"]
         ELSE SelectOkPollJoin(e1, n)

\* the remaining operations are kept and polled after a success
SelectOkPollKeep(e, n) ==
    LET f == find_map(e, n, 1) IN
    IF f.idx = 0
    THEN f.e
    ELSE LET e1 == [f.e EXCEPT !.inner = RemoveAt(@, f.idx)] IN
         [e1 EXCEPT !.out = Append(@, f.res),
                    !.phase = IF e1.inner = <<>> THEN "resolved" ELSE "pending"]

\* on total failure the first error is kept instead of the last
RECURSIVE SelectOkPollFirstErr(_, _)
SelectOkPollFirstErr(e, n) ==
    LET f == find_map(e, n, 1) IN
    IF f.idx = 0
    THEN f.e
    ELSE LET e1 == [f.e EXCEPT !.inner = RemoveAt(@, f.idx)] IN
         IF f.res.kind = "Ok"
         THEN [DropRemaining(e1) EXCEPT !.out = Append(@, f.res), !.phase = "resolved"]
         ELSE IF e1.inner = <<>>
         THEN [e1 EXCEPT !.out = Append(@, e1.res[e1.done[1]]), !.phase = "resolved"]
         ELSE SelectOkPollFirstErr(e1, n)

\* a failed operation is issued once more before its error counts
RECURSIVE SelectOkPollRetry(_, _)
SelectOkPollRetry(e, n) ==
    LET f == find_map(e, n, 1) IN
    IF f.idx = 0
    THEN f.e
    ELSE LET i  == f.e.inner[f.idx]
             e1 == [f.e EXCEPT !.inner = RemoveAt(@, f.idx)] IN
         IF f.res.kind = "Ok"
         THEN [DropRemaining(e1) EXCEPT !.out = Append(@, f.res), !.phase = "resolved"]
         ELSE IF f.e.attempts[i] = 1 /\ Len(f.e.done) = 1
         THEN SelectOkPollRetry([f.e EXCEPT !.pc[i] = "new"], n)
         ELSE IF e1.inner = <<>>
         THEN [e1 EXCEPT !.out = Append(@, f.res), !.phase = "resolved"]
         ELSE SelectOkPollRetry(e1, n)

\* <SelectOk as Future>::poll
RECURSIVE SelectOkPoll(_, _)
SelectOkPoll(e, n) ==
    LET f == find_map(e, n, 1) IN
    IF f.idx = 0
    THEN f.e
    ELSE LET e1 == [f.e EXCEPT !.inner = RemoveAt(@, f.idx)] IN
         IF f.res.kind = "Ok"
         THEN [DropRemaining(e1) EXCEPT !.out = Append(@, f.res), !.phase = "resolved"]
         ELSE IF e1.inner = <<>>
         THEN [e1 EXCEPT !.out = Append(@, f.res), !.phase = "resolved"]
         ELSE SelectOkPoll(e1, n)

\* select_ok without its emptiness assertion
select_ok_unchecked(e, n) == SelectOkPoll(e, n)

\* futures::future::select_ok: assert!(!ret.inner.is_empty(), ..)
select_ok(e, n) ==
    IF e.polls = 0 /\ e.inner = <<>>
    THEN [e EXCEPT !.out = Append(@, Panic), !.phase = "resolved"]
    ELSE SelectOkPoll(e, n)

\* one poll of the exec_calls future
exec_calls(e, n) == [select_ok(e, n) EXCEPT !.polls = @ + 1]

\* the expression a facade method returns of the decoded value `result`
Project(r, v) ==
    IF r = "result.id" THEN v.id
    ELSE IF r = "result.is_compatible" THEN v.is_compatible
    ELSE IF r = "result.mode" THEN v.mode
    ELSE v

\* the result of exec_calls is unwrapped instead of propagated with `?`
FacadeUnwrap(r, o) ==
    IF o.kind = "Err" THEN Panic
    ELSE IF o.kind = "Ok" THEN [o EXCEPT !.val = Project(r, o.val)] ELSE o

\* an error of the call is replaced by the default value
FacadeSwallow(r, o) ==
    IF o.kind = "Err" THEN OkRes(NoVal, o.src)
    ELSE IF o.kind = "Ok" THEN [o EXCEPT !.val = Project(r, o.val)] ELSE o

\* the facade's `let result = exec_calls(http_calls).await?; Ok(<r>)`
Facade(r, o) ==
    IF o.kind = "Err" THEN [o EXCEPT !.variant = <<"HttpCall", o.variant>>]
    ELSE IF o.kind = "Ok" THEN [o EXCEPT !.val = Project(r, o.val)] ELSE o

\* the outcomes the poll that took the call from e to f handed to the caller
Delivered(e, f) ==
    [k \in 1..(Len(f.out) - Len(e.out)) |-> Facade(f.op.ret, f.out[Len(e.out) + k])]

(* ---------------------------------------------------------------- actions *)
\* SchemaRegistryClient::get_subjects is invoked: the calls are built
\* on a client that is new or whose previous call has returned; the new
\* requests have a transport state of their own
Call ==
    /\ client.state = "built"
    /\ ex.phase \in {"idle", "resolved"}
    /\ ex2.phase = "idle"
    /\ ncalls < MaxCalls
    /\ ex' = BuildCalls(get_subjects(FALSE), client.urls, [k \in 1..Len(client.urls) |-> k])
    /\ net' = [i \in Ids |-> NoNet]
    /\ returned' = <<>>
    /\ ncalls' = ncalls + 1
    /\ woken' = TRUE
    /\ UNCHANGED <<conf, client, ex2, pin, pout, registry, caller>>

\* the client forgets the endpoints whose operation failed
self_evicting(c, e) ==
    LET ok == {i \in 1..Len(c.urls) : e.res[i].kind # "Err"}
    IN  IF e.phase = "resolved" /\ ok # {} /\ ok # 1..Len(c.urls)
        THEN [c EXCEPT !.urls = <<c.urls[CHOOSE i \in ok : TRUE]>>]
        ELSE c

\* the facade methods take `&self`: the client after a poll of the call
self(c, e) == c

\* the task awaiting the facade method is polled
Poll ==
    /\ ex.phase = "pending"
    /\ ex2.phase = "idle"
    /\ woken
    /\ ex' = exec_calls(ex, net)
    /\ returned' = returned \o Delivered(ex, ex')
    /\ client' = self(client, ex')
    /\ woken' = FALSE
    /\ UNCHANGED <<conf, ex2, net, ncalls, pin, pout, registry, caller>>

\* the list of n positions with positions a and b exchanged
Swapped(n, a, b) ==
    [k \in 1..n |-> IF k = a THEN b ELSE IF k = b THEN a ELSE k]

\* the same facade call issued twice over the same transport behaviour: once
\* on the configured list and once with two of its positions exchanged
CallSwapped ==
    /\ client.state = "built"
    /\ ex.phase = "idle"
    /\ ex2.phase = "idle"
    /\ \E a, b \in 1..Len(client.urls) :
          /\ a < b
          /\ ex' = BuildCalls(get_subjects(FALSE), client.urls, [k \in 1..Len(client.urls) |-> k])
          /\ ex2' = BuildCalls(get_subjects(FALSE), client.urls, Swapped(Len(client.urls), a, b))
    /\ woken' = TRUE
    /\ UNCHANGED <<conf, client, net, returned, ncalls, pin, pout, registry, caller>>

\* both tasks are polled at the same instant
PollBoth ==
    /\ ex.phase = "pending"
    /\ ex2.phase = "pending"
    /\ woken
    /\ ex' = exec_calls(ex, net)
    /\ ex2' = exec_calls(ex2, net)
    /\ returned' = returned \o Delivered(ex, ex')
    /\ woken' = FALSE
    /\ UNCHANGED <<conf, client, net, ncalls, pin, pout, registry, caller>>

Issued(i) == ex.attempts[i] > 0

Live(i) == ex.phase = "pending" /\ ex.pc[i] \in {"send", "bytes"}

\* the response head of operation i arrives with status s
RecvHeaders(i, s) ==
    /\ Issued(i)
    /\ net[i].hdr = "none"
    /\ net' = [net EXCEPT ![i].hdr = "ok", ![i].status = s]
    /\ woken' = (woken \/ Live(i))
    /\ UNCHANGED <<conf, client, ex, ex2, returned, ncalls, pin, pout, registry, caller>>

\* the transport fails before any status was received
SendFails(i) ==
    /\ Issued(i)
    /\ net[i].hdr = "none"
    /\ net' = [net EXCEPT ![i].hdr = "err", ![i].at = ex.polls]
    /\ woken' = (woken \/ Live(i))
    /\ UNCHANGED <<conf, client, ex, ex2, returned, ncalls, pin, pout, registry, caller>>

\* the whole body of operation i has arrived
RecvBody(i, b) ==
    /\ net[i].hdr = "ok"
    /\ net[i].body = "none"
    /\ net' = [net EXCEPT ![i].body = b, ![i].at = ex.polls]
    /\ woken' = (woken \/ Live(i))
    /\ UNCHANGED <<conf, client, ex, ex2, returned, ncalls, pin, pout, registry, caller>>

\* the transport fails while the body is read
BodyFails(i) ==
    /\ net[i].hdr = "ok"
    /\ net[i].body = "none"
    /\ net' = [net EXCEPT ![i].body = "err", ![i].at = ex.polls]
    /\ woken' = (woken \/ Live(i))
    /\ UNCHANGED <<conf, client, ex, ex2, returned, ncalls, pin, pout, registry, caller>>

(* ---------------------------------------------------------- specification *)
Init ==
    /\ conf = NewConf
    /\ client = NoClient
    /\ ex = NoCall
    /\ ex2 = NoCall
    /\ net = [i \in Ids |-> NoNet]
    /\ woken = FALSE
    /\ returned = <<>>
    /\ ncalls = 0
    /\ pin = NoPin
    /\ pout = NoRes
    /\ registry = <<>>
    /\ caller = NoCaller

Next ==
    \/ \E u \in UrlSet : Url(u)
    \/ \E u \in UserSet, p \in PassSet : BasicAuth(u, p)
    \/ \E t \in TokenSet : BearerAuth(t)
    \/ \E p \in ProxySet : Proxy(p)
    \/ \E h \in HeaderSet : Headers(h)
    \/ \E tls \in BOOLEAN : FromConf(tls)
    \/ \E u \in UrlSet, tls \in BOOLEAN : FromUrl(u, tls)
    \/ Call
    \/ Poll
    \/ \E i \in Ids, s \in StatusSet : RecvHeaders(i, s)
    \/ \E i \in Ids : SendFails(i)
    \/ \E i \in Ids, b \in BodySet : RecvBody(i, b)
    \/ \E i \in Ids : BodyFails(i)

Spec == Init /\ [][Next]_vars

NextSwap ==
    \/ \E u \in UrlSet : Url(u)
    \/ \E p \in ProxySet : Proxy(p)
    \/ \E tls \in BOOLEAN : FromConf(tls)
    \/ CallSwapped
    \/ PollBoth
    \/ \E i \in Ids, s \in StatusSet : RecvHeaders(i, s)
    \/ \E i \in Ids : SendFails(i)
    \/ \E i \in Ids, b \in BodySet : RecvBody(i, b)
    \/ \E i \in Ids : BodyFails(i)

SpecSwap == Init /\ [][NextSwap]_vars

\* parse_response on its own: any response the probes describe is handed to it
InitParse ==
    /\ conf = NewConf
    /\ client = NoClient
    /\ ex = NoCall
    /\ ex2 = NoCall
    /\ net = [i \in Ids |-> NoNet]
    /\ woken = FALSE
    /\ returned = <<>>
    /\ ncalls = 0
    /\ pin \in [url : {RequestUrl(get_subjects(FALSE), u) : u \in {"http://r1", "http://r2"}},
                status : StatusProbe, body : BodyProbe]
    /\ pout = NoRes
    /\ registry = <<>>
    /\ caller = NoCaller

ParseResponse ==
    /\ pout = NoRes
    /\ pout' = parse_response(TargetType, pin.url, pin.status, pin.body, 1)
    /\ UNCHANGED <<conf, client, ex, ex2, net, woken, returned, ncalls, pin, registry, caller>>

SpecParse == InitParse /\ [][ParseResponse]_vars

\* any facade method is invoked on the client
CallOp(o) ==
    /\ client.state = "built"
    /\ ex.phase \in {"idle", "resolved"}
    /\ ex2.phase = "idle"
    /\ ncalls < MaxCalls
    /\ ex' = BuildCalls(o, client.urls, [k \in 1..Len(client.urls) |-> k])
    /\ net' = [i \in Ids |-> NoNet]
    /\ returned' = <<>>
    /\ ncalls' = ncalls + 1
    /\ woken' = TRUE
    /\ UNCHANGED <<conf, client, ex2, pin, pout, registry, caller>>

\* the requests of every facade method: a client is built from a list of
\* URLs, any method is invoked on it, and its operations are polled
RequestUrlSet == UrlSet \cup {"http://r2"}

NextRequest ==
    \/ \E u \in RequestUrlSet : Url(u)
    \/ \E tls \in BOOLEAN : FromConf(tls)
    \/ \E u \in RequestUrlSet, tls \in BOOLEAN : FromUrl(u, tls)
    \/ \E o \in FacadeOps : CallOp(o)
    \/ Poll

SpecRequest == Init /\ [][NextRequest]_vars

\* build_auth_headers on its own: it is run twice on the same Authentication
UserProbe == {"user", "u", "a", "ab", "me", ""}
PassProbe == {None, "pass", "pw", "b", "p", ""}
TokenProbe == {"tok", "tok\n", "t", ""}

InitAuth ==
    /\ conf = NewConf
    /\ client = NoClient
    /\ ex = NoCall
    /\ ex2 = NoCall
    /\ net = [i \in Ids |-> NoNet]
    /\ woken = FALSE
    /\ returned = <<>>
    /\ ncalls = 0
    /\ pin \in {Bearer(t) : t \in TokenProbe}
               \cup {Basic(u, p) : u \in UserProbe, p \in PassProbe}
    /\ pout = <<>>
    /\ registry = <<>>
    /\ caller = NoCaller

BuildAuthHeaders ==
    /\ Len(pout) < 2
    /\ pout' = Append(pout, build_auth_headers(pin))
    /\ UNCHANGED <<conf, client, ex, ex2, net, woken, returned, ncalls, pin, registry, caller>>

SpecAuth == InitAuth /\ [][BuildAuthHeaders]_vars

\* the compatibility checks against two endpoints: the client is built from
\* two URLs, a check is invoked, and the endpoints answer with either
\* spelling of the wrapper object
CompatibilityOps ==
    {is_compatible("s", v, UnregisteredSchema("A", "Avro", NoRefs)) : v \in {Latest, Number(1)}}
    \cup {is_fully_compatible("s", UnregisteredSchema("A", "Avro", NoRefs))}

CompatibilityBodies ==
    {JsonText([is_compatible |-> b]) : b \in BOOLEAN}
    \cup {JsonText([isCompatible |-> b]) : b \in BOOLEAN}

InitFacade ==
    /\ conf = MovedConf
    /\ client = from_conf(url(url(NewConf, "http://r1"), "http://r2"), TRUE)
    /\ ex = NoCall
    /\ ex2 = NoCall
    /\ net = [i \in Ids |-> NoNet]
    /\ woken = FALSE
    /\ returned = <<>>
    /\ ncalls = 0
    /\ pin = NoPin
    /\ pout = NoRes
    /\ registry = <<>>
    /\ caller = NoCaller

NextFacade ==
    \/ \E o \in CompatibilityOps : CallOp(o)
    \/ Poll
    \/ \E i \in Ids, st \in StatusSet : RecvHeaders(i, st)
    \/ \E i \in Ids : SendFails(i)
    \/ \E i \in Ids, b \in CompatibilityBodies : RecvBody(i, b)
    \/ \E i \in Ids : BodyFails(i)

SpecFacade == InitFacade /\ [][NextFacade]_vars

\* build_http_client on its own: a configuration with any of the static
\* header maps, authentication settings and proxies below is handed to it
InitHttpClient ==
    /\ conf = NewConf
    /\ client = NoClient
    /\ ex = NoCall
    /\ ex2 = NoCall
    /\ net = [i \in Ids |-> NoNet]
    /\ woken = FALSE
    /\ returned = <<>>
    /\ ncalls = 0
    /\ pin \in {[NewConf EXCEPT !.headers = h, !.authentication = a, !.proxy = p] :
                   h \in {NoHeaders}
                          \cup {SomeHeaders(m) :
                                   m \in HeaderSet
                                          \cup {{<<"Authorization", "Bearer old">>},
                                                 {<<"authorization", "Bearer old">>,
                                                  <<"x-app", "a">>}}},
                   a \in {NoAuth, Bearer("tok"), Bearer("tok\n"),
                          Basic("user", "pw"), Basic("user", None)},
                   p \in ProxySet}
    /\ pout = <<>>
    /\ registry = <<>>
    /\ caller = NoCaller

BuildHttpClient(tls) ==
    /\ pout = <<>>
    /\ pout' = <<build_http_client(pin, tls)>>
    /\ UNCHANGED <<conf, client, ex, ex2, net, woken, returned, ncalls, pin, registry, caller>>

SpecHttpClient == InitHttpClient /\ [][\E tls \in BOOLEAN : BuildHttpClient(tls)]_vars

\* impl fmt::Debug for Authentication
AuthenticationDebug(a) ==
    IF a.kind = "Bearer"
    THEN "BearerAuthentication { token: ****** }"
    ELSE "BasicAuthentication { username: " \o a.username \o ", password ****** }"

\* the password is written where the asterisks belong
AuthenticationDisplayPlain(a) ==
    IF a.kind = "Bearer"
    THEN "Bearer ******"
    ELSE "Basic " \o a.username \o ":" \o (IF a.password = None THEN "" ELSE a.password)

\* impl fmt::Display for Authentication
AuthenticationDisplay(a) ==
    IF a.kind = "Bearer"
    THEN "Bearer ******"
    ELSE "Basic " \o a.username \o ":******"

\* two Authentication values are formatted with {:?} and with {}
InitRender ==
    /\ conf = NewConf
    /\ client = NoClient
    /\ ex = NoCall
    /\ ex2 = NoCall
    /\ net = [i \in Ids |-> NoNet]
    /\ woken = FALSE
    /\ returned = <<>>
    /\ ncalls = 0
    /\ pin \in ({Bearer(t) : t \in TokenProbe}
                 \cup {Basic(u, p) : u \in UserProbe, p \in PassProbe})
               \X ({Bearer(t) : t \in TokenProbe}
                    \cup {Basic(u, p) : u \in UserProbe, p \in PassProbe})
    /\ pout = <<>>
    /\ registry = <<>>
    /\ caller = NoCaller

Render ==
    /\ pout = <<>>
    /\ pout' = [k \in 1..2 |-> [debug |-> AuthenticationDebug(pin[k]),
                                display |-> AuthenticationDisplay(pin[k])]]
    /\ UNCHANGED <<conf, client, ex, ex2, net, woken, returned, ncalls, pin, registry, caller>>

SpecRender == InitRender /\ [][Render]_vars

\* the operations whose declared result is the unit type, among them the
\* legacy update_config, against two endpoints that answer with null, with
\* no body at all or with an object
UnitOps ==
    {o \in FacadeOps : o.target = UnitT}
    \cup {Op("update_config", "PUT", "/config",
              Accept, Json([compatibility |-> "FULL"]), UnitT, "()")}

NextUnit ==
    \/ \E o \in UnitOps : CallOp(o)
    \/ Poll
    \/ \E i \in Ids, st \in StatusSet : RecvHeaders(i, st)
    \/ \E i \in Ids : SendFails(i)
    \/ \E i \in Ids, b \in {"null", "", "{id:1}"} : RecvBody(i, b)
    \/ \E i \in Ids : BodyFails(i)

SpecUnit == InitFacade /\ [][NextUnit]_vars

(* ------------------------------------------------------------- SchemaType *)
\* A &str is the sequence of its bytes.  impl Display for SchemaType writes
\* "AVRO", "PROTOBUF" or "JSON"
SchemaTypeDisplay(t) ==
    IF t = "Avro" THEN <<65, 86, 82, 79>>
    ELSE IF t = "Protobuf" THEN <<80, 82, 79, 84, 79, 66, 85, 70>>
    ELSE <<74, 83, 79, 78>>

\* u8::to_ascii_lowercase: only 'A'..='Z' change
to_ascii_lowercase(c) == IF c \in 65..90 THEN c + 32 ELSE c

\* str::eq_ignore_ascii_case
eq_ignore_ascii_case(a, b) ==
    /\ Len(a) = Len(b)
    /\ \A k \in 1..Len(a) : to_ascii_lowercase(a[k]) = to_ascii_lowercase(b[k])

\* SchemaRegistryError::invalid_schema_type(str)
InvalidSchemaType(str) ==
    [kind |-> "Err", variant |-> "InvalidSchemaType", message |-> str]

\* the names are compared as they are written
from_str_exact(str) ==
    IF str = <<65, 86, 82, 79>> THEN [kind |-> "Ok", val |-> "Avro"]
    ELSE IF str = <<80, 82, 79, 84, 79, 66, 85, 70>>
    THEN [kind |-> "Ok", val |-> "Protobuf"]
    ELSE IF str = <<74, 83, 79, 78>> THEN [kind |-> "Ok", val |-> "Json"]
    ELSE InvalidSchemaType(str)

\* impl FromStr for SchemaType
from_str(str) ==
    IF eq_ignore_ascii_case(str, <<65, 86, 82, 79>>)
    THEN [kind |-> "Ok", val |-> "Avro"]
    ELSE IF eq_ignore_ascii_case(str, <<80, 82, 79, 84, 79, 66, 85, 70>>)
    THEN [kind |-> "Ok", val |-> "Protobuf"]
    ELSE IF eq_ignore_ascii_case(str, <<74, 83, 79, 78>>)
    THEN [kind |-> "Ok", val |-> "Json"]
    ELSE InvalidSchemaType(str)

\* the spellings of a name in upper and lower case letters
Spellings(w) ==
    {[k \in 1..Len(w) |-> IF k \in low THEN w[k] + 32 ELSE w[k]] :
        low \in SUBSET (1..Len(w))}

\* the strings handed to from_str: every spelling of the three names, and
\* strings that are no name: the empty string, a name with a blank before
\* or after it, a prefix, other words, a name with a letter replaced by the
\* character 32 below or above a letter's neighbour ('@', '[', '`', '{'),
\* and "JſON", whose long s is two bytes in UTF-8
SchemaTypeProbe ==
    Spellings(<<65, 86, 82, 79>>)
    \cup Spellings(<<74, 83, 79, 78>>)
    \cup Spellings(<<80, 82, 79, 84, 79, 66, 85, 70>>)
    \cup {<<>>, <<32, 65, 86, 82, 79>>, <<65, 86, 82, 79, 32>>, <<65, 86, 82>>,
          <<88, 77, 76>>, <<65, 86, 82, 79, 74, 83, 79, 78>>,
          <<64, 86, 82, 79>>, <<96, 86, 82, 79>>, <<74, 83, 79, 91>>,
          <<74, 83, 79, 123>>, <<74, 197, 191, 79, 78>>}

InitSchemaType ==
    /\ conf = NewConf
    /\ client = NoClient
    /\ ex = NoCall
    /\ ex2 = NoCall
    /\ net = [i \in Ids |-> NoNet]
    /\ woken = FALSE
    /\ returned = <<>>
    /\ ncalls = 0
    /\ pin \in SchemaTypeProbe
    /\ pout = <<>>
    /\ registry = <<>>
    /\ caller = NoCaller

FromStr ==
    /\ pout = <<>>
    /\ pout' = <<from_str(pin)>>
    /\ UNCHANGED <<conf, client, ex, ex2, net, woken, returned, ncalls, pin, registry, caller>>

SpecSchemaType == InitSchemaType /\ [][FromStr]_vars

(* ------------------------------------------------------------ the registry *)
\* A registry that stores what it is sent: a schema posted to
\* /subjects/{subject}/versions is stored under the next id unless it is
\* stored already, and /schemas/ids/{id} answers with the stored document.
IsRegister(r, base) ==
    /\ r.method = "POST"
    /\ \E s \in SubjectSet,
             q \in {"", "?=true", "?=false", "?normalize=true", "?normalize=false"} :
          r.url = base \o "/subjects/" \o s \o "/versions" \o q

IsFetch(r, base, n) ==
    r.method = "GET" /\ r.url = base \o "/schemas/ids/" \o U32(n)

IdOf(store, doc) ==
    IF \E k \in 1..Len(store) : store[k] = doc
    THEN CHOOSE k \in 1..Len(store) : store[k] = doc
    ELSE Len(store) + 1

\* the texts a stored document may be answered with: as stored, or, as
\* registries do for Avro, without the schemaType member
Renderings(doc) ==
    {JsonText(doc)}
    \cup (IF "schemaType" \in DOMAIN doc /\ doc.schemaType = "AVRO"
          THEN {JsonText(IF "references" \in DOMAIN doc
                         THEN [schema |-> doc.schema, references |-> doc.references]
                         ELSE [schema |-> doc.schema])}
          ELSE {})

\* the registry answers request i of the call in progress
Serve(i) ==
    /\ i \in 1..Len(ex.calls)
    /\ ex.req[i] # NoReq
    /\ net[i].hdr = "none"
    /\ LET r    == ex.req[i]
           base == ex.url[i]
       IN  \/ /\ IsRegister(r, base)
              /\ registry' = IF IdOf(registry, r.body.json) > Len(registry)
                             THEN Append(registry, r.body.json) ELSE registry
              /\ net' = [net EXCEPT ![i] =
                            [hdr |-> "ok", status |-> 200, at |-> ex.polls,
                             body |-> JsonText([id |-> IdOf(registry, r.body.json)])]]
           \/ \E n \in 1..Len(registry) : \E b \in Renderings(registry[n]) :
                 /\ IsFetch(r, base, n)
                 /\ registry' = registry
                 /\ net' = [net EXCEPT ![i] =
                               [hdr |-> "ok", status |-> 200, at |-> ex.polls,
                                body |-> b]]
    /\ woken' = (woken \/ Live(i))
    /\ UNCHANGED <<conf, client, ex, ex2, returned, ncalls, pin, pout, caller>>

\* the program of the round trip: it registers a schema ..
Register(s, sch, n) ==
    /\ client.state = "built"
    /\ caller.step = "start"
    /\ ex.phase = "idle"
    /\ ex' = BuildCalls(post_new_subject_version(s, sch, n), client.urls,
                        [k \in 1..Len(client.urls) |-> k])
    /\ caller' = [step |-> "registering", schema |-> sch]
    /\ net' = [i \in Ids |-> NoNet]
    /\ returned' = <<>>
    /\ ncalls' = ncalls + 1
    /\ woken' = TRUE
    /\ UNCHANGED <<conf, client, ex2, pin, pout, registry>>

\* .. and, once the id is returned, fetches the schema by that id
Fetch ==
    /\ caller.step = "registering"
    /\ ex.phase = "resolved"
    /\ Len(returned) = 1
    /\ returned[1].kind = "Ok"
    /\ ex' = BuildCalls(get_schema_by_id(returned[1].val), client.urls,
                        [k \in 1..Len(client.urls) |-> k])
    /\ caller' = [step |-> "fetching", schema |-> caller.schema,
                  id |-> returned[1].val]
    /\ net' = [i \in Ids |-> NoNet]
    /\ returned' = <<>>
    /\ ncalls' = ncalls + 1
    /\ woken' = TRUE
    /\ UNCHANGED <<conf, client, ex2, pin, pout, registry>>

RegistryUrlSet == {"http://r1", "http://r2"}

\* the registry may hold a schema of some other program already
InitRoundTrip ==
    /\ conf = NewConf
    /\ client = NoClient
    /\ ex = NoCall
    /\ ex2 = NoCall
    /\ net = [i \in Ids |-> NoNet]
    /\ woken = FALSE
    /\ returned = <<>>
    /\ ncalls = 0
    /\ pin = NoPin
    /\ pout = NoRes
    /\ registry \in {<<>>, <<[schema |-> "B", schemaType |-> "JSON"]>>}
    /\ caller = NoCaller

NextRoundTrip ==
    \/ \E u \in RegistryUrlSet : Url(u)
    \/ \E tls \in BOOLEAN : FromConf(tls)
    \/ \E u \in RegistryUrlSet, tls \in BOOLEAN : FromUrl(u, tls)
    \/ \E s \in SubjectSet, sch \in SchemaSet, n \in BOOLEAN : Register(s, sch, n)
    \/ Poll
    \/ \E i \in Ids : Serve(i)
    \/ Fetch

SpecRoundTrip == InitRoundTrip /\ [][NextRoundTrip]_vars

\* A call under the scheduling the async runtime gives it: the transport
\* wakes the task when an operation of the call makes progress, and a woken
\* task is polled again
NextLive ==
    \/ \E u \in UrlSet : Url(u)
    \/ \E tls \in BOOLEAN : FromConf(tls)
    \/ Call
    \/ Poll
    \/ \E i \in Ids, s \in StatusSet : RecvHeaders(i, s)
    \/ \E i \in Ids : SendFails(i)
    \/ \E i \in Ids, b \in BodySet : RecvBody(i, b)
    \/ \E i \in Ids : BodyFails(i)

\* the step in which the runtime polls the task it was told to wake: of the
\* steps of NextLive these are the Poll steps, and one is possible exactly
\* when Poll is
Polled ==
    /\ ex.phase = "pending"
    /\ ex2.phase = "idle"
    /\ woken
    /\ woken' = FALSE

SpecLive == Init /\ [][NextLive]_vars /\ WF_woken(Polled)

(* ------------------------------------------------------------ properties *)
\* the endpoint operations of the logical call
Ops == 1..Len(ex.calls)

\* what endpoint operation i yields, from its URL and what the transport
\* has received for it (NoRes while it cannot complete yet)
OpResult(i) ==
    IF ~UrlParses(ex.url[i]) THEN Unexpected(i)
    ELSE IF net[i].hdr = "err" THEN Unexpected(i)
    ELSE IF net[i].hdr = "ok" /\ net[i].body = "err" THEN Unexpected(i)
    ELSE IF net[i].hdr = "ok" /\ net[i].body # "none"
    THEN parse_response(ex.op.target, RequestUrl(ex.op, ex.url[i]), net[i].status, net[i].body, i)
    ELSE NoRes

ResolvedWith(kind) ==
    ex.phase = "resolved" /\ Len(ex.out) >= 1 /\ ex.out[1].kind = kind

Pos(s, x) == CHOOSE k \in 1..Len(s) : s[k] = x

\* C1: as soon as one endpoint operation has completed successfully the
\* call is resolved, in the same step, with that success, whatever the other
\* operations are doing (pending or failed).
C1_FirstSuccessResolves ==
    \A i \in Ids :
        ex.res[i].kind = "Ok" =>
            /\ ex.phase = "resolved"
            /\ ex.out = <<ex.res[i]>>
            /\ returned = <<ex.res[i]>>

C1_Witness ==
    \E i, j \in Ops :
        /\ i # j
        /\ ex.res[i].kind = "Ok"
        /\ returned = <<ex.res[i]>>
        /\ ex.pc[j] = "dropped"
        /\ OpResult(j) = NoRes

\* C2: when the call resolves to an error, every endpoint operation has
\* completed with an error and the error returned is that of the operation
\* that finished last, whatever its list position; no operation became ready
\* in a later poll interval than the one whose error is reported.
C2_LastErrorReturned ==
    ResolvedWith("Err") =>
        /\ Len(ex.done) = Len(ex.calls)
        /\ \A i \in Ops : ex.res[i].kind = "Err"
        /\ ex.out = <<ex.res[ex.done[Len(ex.done)]]>>
        /\ \A j \in Ops : net[j].at <= net[ex.out[1].src].at

C2_Witness ==
    /\ ResolvedWith("Err")
    /\ Len(ex.calls) >= 2
    /\ ex.out[1].src = 1
    /\ ex.done[1] = 2
    /\ net[2].at < net[1].at
    /\ ex.res[2] # [ex.res[1] EXCEPT !.src = 2]

\* C3: when several endpoints succeed at different times (their successes
\* become ready in different poll intervals of the executor), the value
\* returned is the value of the one that succeeded first, whatever its list
\* position.
C3_EarliestSuccessWins ==
    ResolvedWith("Ok") =>
        LET w == ex.out[1].src IN
        /\ ex.out[1] = OpResult(w)
        /\ \A j \in Ops :
               (OpResult(j).kind = "Ok" /\ net[j].at # net[w].at)
                   => net[w].at < net[j].at

C3_Witness ==
    /\ ResolvedWith("Ok")
    /\ Len(ex.calls) >= 2
    /\ ex.out[1].src = 2
    /\ OpResult(1).kind = "Ok"
    /\ net[2].at < net[1].at
    /\ OpResult(1).val # ex.out[1].val

\* C4: the caller receives at most one outcome per logical call, and exactly
\* one once the call has resolved; an endpoint that completes after the call
\* resolved causes no second response.
C4_ExactlyOneOutcome ==
    /\ Len(returned) <= 1
    /\ Len(ex.out) <= 1
    /\ (ex.phase = "resolved" <=> Len(returned) = 1)
    /\ \A k \in 1..Len(returned) : returned[k].kind \in {"Ok", "Err", "Panic"}

C4_Witness ==
    /\ ex.phase = "resolved"
    /\ Len(returned) = 1
    /\ \E j \in Ops :
          /\ j # returned[1].src
          /\ ex.pc[j] = "dropped"
          /\ OpResult(j).kind # "None"

\* C5: whatever the caller receives is the result of one dispatched endpoint
\* operation, unmerged and unchanged: same kind, value, URL, status and body
\* as that operation produced, an error only being wrapped as HttpCall; no
\* result of another operation is reported, also when it disagrees.
C5_OutcomeIsOneResult ==
    \A k \in 1..Len(returned) :
        returned[k].kind # "Panic" =>
            LET w == returned[k].src
                r == OpResult(w)
            IN  /\ k = 1
                /\ w \in Ops
                /\ r.kind \in {"Ok", "Err"}
                /\ returned[k].kind = r.kind
                /\ returned[k].val = r.val
                /\ returned[k].url = r.url
                /\ returned[k].status = r.status
                /\ returned[k].body = r.body
                /\ (r.kind = "Ok" => returned[k].variant = r.variant)
                /\ (r.kind = "Err" => returned[k].variant = <<"HttpCall", r.variant>>)

C5_Witness ==
    /\ Len(returned) = 1
    /\ returned[1].kind \in {"Ok", "Err"}
    /\ \E j \in Ops :
          /\ j # returned[1].src
          /\ OpResult(j).kind # "None"
          /\ OpResult(j).kind # returned[1].kind \/ OpResult(j).val # returned[1].val

\* C6: a call on a client with zero endpoints fails at the first poll of the
\* executor with a panic the caller sees; it is never left pending after
\* that poll and never returns a success.
C6_EmptyListFails ==
    (client.state = "built" /\ Len(client.urls) = 0) =>
        /\ (ex.phase = "pending" => ex.polls = 0 /\ woken)
        /\ (ex.polls >= 1 => ex.phase = "resolved" /\ returned = <<Panic>>)
        /\ \A k \in 1..Len(returned) : returned[k].kind # "Ok"

C6_Witness ==
    /\ client.state = "built"
    /\ Len(client.urls) = 0
    /\ ex.polls = 1
    /\ returned = <<Panic>>

\* C7: every successfully constructed client has a non-empty Endpoint Set
\* (from_conf fails on a configuration without any url() call).
C7_EndpointSetNonEmpty ==
    client.state = "built" => Len(client.urls) >= 1

\* C8: after the first poll of the executor every endpoint operation has
\* been started (its request issued once when its URL is usable), although
\* earlier operations of the list are still pending; none is unstarted when
\* the call resolves.
C8_AllStartedTogether ==
    ex.polls >= 1 =>
        \A i \in Ops :
            /\ ex.pc[i] # "new"
            /\ (UrlParses(ex.url[i]) => ex.attempts[i] = 1)

C8_Witness ==
    /\ ex.phase = "pending"
    /\ ex.polls >= 1
    /\ Len(ex.calls) >= 2
    /\ ex.pc[1] = "send"
    /\ net[1].hdr = "none"
    /\ ex.attempts[2] = 1

\* C9: each endpoint's request is issued at most once per logical call; an
\* operation that completed is removed and never polled or issued again, and
\* the result it completed with is the one its transport produced (no
\* timeout or other substitute is made up by the executor).
C9_SingleAttempt ==
    \A i \in Ids :
        /\ ex.attempts[i] <= 1
        /\ Cardinality({k \in 1..Len(ex.done) : ex.done[k] = i}) <= 1
        /\ (ex.res[i].kind # "None" =>
               /\ ex.pc[i] = "done"
               /\ \A k \in 1..Len(ex.inner) : ex.inner[k] # i
               /\ ex.res[i] = OpResult(i))
        /\ (ex.pc[i] \in {"send", "bytes"} /\ OpResult(i) = NoRes
               => ex.res[i] = NoRes)

C9_Witness ==
    \E i \in Ops :
        /\ ex.res[i].kind = "Err"
        /\ ex.attempts[i] = 1
        /\ ex.phase = "pending"
        /\ ex.polls >= 3

\* C10 (as stated): exchanging the list positions of two endpoints never
\* changes which endpoint's success is returned.
C10_SwapNeverChangesWinner ==
    (ResolvedWith("Ok") /\ ex2.phase = "resolved" /\ ex2.out[1].kind = "Ok")
        => ex.out[1].src = ex2.out[1].src

\* C10 (amended): exchanging the list positions of two endpoints changes the
\* endpoint whose success is returned only when both successes became ready
\* between the same two polls of the executor, and then each list returns
\* the one that comes earlier in it.
C10_SwapChangesWinnerOnlyInSamePoll ==
    (ResolvedWith("Ok") /\ ex2.phase = "resolved" /\ ex2.out[1].kind = "Ok") =>
        LET a == ex.out[1].src
            b == ex2.out[1].src
        IN  \/ a = b
            \/ /\ net[a].at = net[b].at
               /\ OpResult(a).kind = "Ok"
               /\ OpResult(b).kind = "Ok"
               /\ Pos(ex.calls, a) < Pos(ex.calls, b)
               /\ Pos(ex2.calls, b) < Pos(ex2.calls, a)

C10_Witness ==
    /\ ResolvedWith("Ok")
    /\ ex2.phase = "resolved"
    /\ ex2.out[1].kind = "Ok"
    /\ ex.out[1].src = ex2.out[1].src
    /\ Pos(ex.calls, ex.out[1].src) # Pos(ex2.calls, ex.out[1].src)
    /\ \E j \in Ops : j # ex.out[1].src /\ OpResult(j).kind = "Ok"

\* the endpoint of operation h hangs: its request is out and neither a
\* complete response nor a transport failure has come back
Hung(h) == h \in Ops /\ Issued(h) /\ OpResult(h) = NoRes

\* C11: a hung endpoint stalls the call only if it is the sole endpoint or
\* every other endpoint fails.  While an endpoint hangs, the call is resolved
\* only by the success of another endpoint; once the task has been polled
\* after another endpoint's success arrived the call is resolved with such a
\* success; and while every other endpoint has failed the call is pending:
\* nothing but the hung endpoint's own answer releases it.
C11_HungEndpointStallsOnlyFailures ==
    \A h \in Ops : Hung(h) =>
        /\ ex.phase = "resolved" =>
              /\ ResolvedWith("Ok")
              /\ ex.out[1].src # h
              /\ ex.out[1] = OpResult(ex.out[1].src)
        /\ (~woken /\ \E j \in Ops \ {h} : OpResult(j).kind = "Ok") =>
              ResolvedWith("Ok")
        /\ (\A j \in Ops \ {h} : OpResult(j).kind = "Err") =>
              ex.phase = "pending" /\ returned = <<>>

C11_Witness ==
    /\ Len(ex.calls) = 2
    /\ Hung(1)
    /\ ex.res[2].variant = "UpstreamError"
    /\ ex.phase = "pending"
    /\ ~woken
    /\ ex.polls >= 2

\* parse_response has been applied to the response `pin`
Parsed == pout # NoRes

\* C12: parse_response takes the success path exactly when the status lies
\* in 200..=299 (200 and 299 included, 199 and 300 excluded): a 2xx response
\* with a decodable body yields Ok and never yields UpstreamError, and every
\* other status yields UpstreamError whatever the body holds.
C12_SuccessExactly2xx ==
    Parsed =>
        /\ (pin.status >= 200 /\ pin.status <= 299) <=> pout.variant # "UpstreamError"
        /\ pout.kind = "Ok" <=> (pin.status >= 200 /\ pin.status <= 299 /\ Parses(TargetType, pin.body))
        /\ pout.variant = "UpstreamError" => pout.kind = "Err"
        /\ pin.status \in {200, 299} => pout.variant # "UpstreamError"
        /\ pin.status \in {199, 300} => pout.variant = "UpstreamError"

C12_Witness ==
    /\ Parsed
    /\ pin.status = 299
    /\ Parses(TargetType, pin.body)
    /\ pout.kind = "Ok"

C14_TransportFailureIsUnexpected ==
    \A i \in Ops : net[i].hdr = "err" =>
        /\ ex.pc[i] # "bytes"
        /\ ex.res[i].kind \in {"None", "Err"}
        /\ ex.res[i].kind = "Err" =>
              /\ ex.res[i].variant = "Unexpected"
              /\ ex.res[i].variant \notin {"UpstreamError", "JsonParse"}
              /\ ex.res[i].url = NoUrl
              /\ ex.res[i].status = 0
              /\ ex.res[i].body = "-"
        /\ (returned # <<>> /\ returned[1].src = i) =>
              /\ returned[1].kind = "Err"
              /\ returned[1].variant = <<"HttpCall", "Unexpected">>
              /\ returned[1].url = NoUrl
              /\ returned[1].body = "-"

C14_Witness ==
    /\ Len(ex.calls) = 2
    /\ returned # <<>>
    /\ net[returned[1].src].hdr = "err"
    /\ returned[1].variant = <<"HttpCall", "Unexpected">>
    /\ \E j \in Ops : ex.res[j].variant = "UpstreamError"

HttpCallVariants == {<<"HttpCall", v>> : v \in {"Unexpected", "UpstreamError", "JsonParse"}}

Front(s) == SubSeq(s, 1, Len(s) - 1)

Last(s) == s[Len(s)]

\* a builder call that supplies a user name or a token
SetsAuth(call) ==
    /\ call[1] \in {"basic_auth", "bearer_auth"}
    /\ call[2] # None

\* the authentication the latest such call of a chain supplies
RECURSIVE AuthAfter(_)
AuthAfter(ch) ==
    IF ch = <<>> THEN NoAuth
    ELSE IF SetsAuth(Last(ch))
    THEN IF Last(ch)[1] = "basic_auth"
         THEN Basic(Last(ch)[2], Last(ch)[3])
         ELSE Bearer(Last(ch)[2])
    ELSE AuthAfter(Front(ch))

\* the configuration a chain yields when its authentication calls are left out
RECURSIVE WithoutAuth(_)
WithoutAuth(ch) ==
    IF ch = <<>> THEN NewConf
    ELSE LET c == WithoutAuth(Front(ch))
             call == Last(ch)
         IN  IF call[1] = "url" THEN url(c, call[2])
             ELSE IF call[1] = "proxy" THEN proxy(c, call[2])
             ELSE IF call[1] = "headers" THEN headers(c, call[2])
             ELSE c

\* C16: a configuration holds at most one authentication setting, and after
\* any sequence of basic_auth and bearer_auth calls it is the setting of the
\* latest call that supplied one (Bearer then Basic leaves Basic, Basic then
\* Bearer leaves Bearer); the authentication calls, overwrites included,
\* change no other field.
C16_LaterAuthenticationWins ==
    conf.state = "building" =>
        /\ conf.authentication \in
              {NoAuth} \cup {Bearer(t) : t \in TokenSet \ {None}}
                       \cup {Basic(u, p) : u \in UserSet \ {None}, p \in PassSet}
        /\ conf.authentication = AuthAfter(conf.chain)
        /\ conf.urls = WithoutAuth(conf.chain).urls
        /\ conf.proxy = WithoutAuth(conf.chain).proxy
        /\ conf.headers = WithoutAuth(conf.chain).headers

C16_Witness ==
    /\ conf.state = "building"
    /\ Len(conf.chain) = 3
    /\ conf.chain[1] = <<"url", "http://r1">>
    /\ conf.chain[2] = <<"bearer_auth", "tok">>
    /\ conf.chain[3] = <<"basic_auth", "user", "pw">>
    /\ conf.authentication = Basic("user", "pw")
    /\ conf.urls = <<"http://r1">>

\* the step is a builder call named `name` on the configuration
BuilderStep(name) ==
    /\ conf.state = "building"
    /\ conf'.state = "building"
    /\ Len(conf'.chain) = Len(conf.chain) + 1
    /\ Last(conf'.chain)[1] = name

\* C17: basic_auth called without a user name (whatever the password) and
\* bearer_auth called without a token leave the authentication setting
\* exactly as it was (None stays None, an existing Bearer or Basic setting is
\* kept, although the overwrite warning is logged when one exists) and leave
\* urls, proxy and headers unchanged.
C17_MissingCredentialIsIgnored ==
    [][ /\ (BuilderStep("basic_auth") /\ Last(conf'.chain)[2] = None) =>
              /\ conf'.authentication = conf.authentication
              /\ conf'.urls = conf.urls
              /\ conf'.proxy = conf.proxy
              /\ conf'.headers = conf.headers
              /\ WarnNoUser \in conf'.warns
              /\ WarnOverwrite \in conf'.warns <=> conf.authentication # NoAuth
        /\ (BuilderStep("bearer_auth") /\ Last(conf'.chain)[2] = None) =>
              /\ conf'.authentication = conf.authentication
              /\ conf'.urls = conf.urls
              /\ conf'.proxy = conf.proxy
              /\ conf'.headers = conf.headers
              /\ WarnNoToken \in conf'.warns
              /\ WarnOverwrite \in conf'.warns <=> conf.authentication # NoAuth
      ]_vars

C17_Witness ==
    /\ conf.state = "building"
    /\ Len(conf.chain) = 3
    /\ conf.chain[2] = <<"bearer_auth", "tok">>
    /\ conf.chain[3] = <<"basic_auth", None, "pw">>
    /\ conf.authentication = Bearer("tok")
    /\ conf.warns = {WarnOverwrite, WarnNoUser}

\* the arguments of the url calls of a chain, in call order
RECURSIVE UrlsOf(_)
UrlsOf(ch) ==
    IF ch = <<>> THEN <<>>
    ELSE IF Last(ch)[1] = "url" THEN Append(UrlsOf(Front(ch)), Last(ch)[2])
    ELSE UrlsOf(Front(ch))

\* the argument of the latest call named `name` of a chain, if there is one
RECURSIVE LastArg(_, _, _)
LastArg(ch, name, none) ==
    IF ch = <<>> THEN none
    ELSE IF Last(ch)[1] = name THEN Last(ch)[2]
    ELSE LastArg(Front(ch), name, none)

Calls(ch, name) == {k \in 1..Len(ch) : ch[k][1] = name}

\* C18: each builder method changes only its own field.  After any chain of
\* builder calls the url list is the arguments of the url calls in call order
\* (the first url() is urls[0]), the proxy is the argument of the latest
\* proxy call, the headers are the map of the latest headers call, and the
\* authentication is that of the latest call that supplied one; a field no
\* call was made for has its initial value.
C18_EachBuilderSetsItsOwnField ==
    conf.state = "building" =>
        /\ conf.urls = UrlsOf(conf.chain)
        /\ Calls(conf.chain, "url") # {} =>
              conf.urls[1] = conf.chain[CHOOSE k \in Calls(conf.chain, "url") :
                                 \A j \in Calls(conf.chain, "url") : k <= j][2]
        /\ conf.proxy = LastArg(conf.chain, "proxy", None)
        /\ conf.headers = IF Calls(conf.chain, "headers") = {} THEN NoHeaders
                          ELSE SomeHeaders(LastArg(conf.chain, "headers", {}))
        /\ conf.authentication = AuthAfter(conf.chain)

C18_Witness ==
    /\ conf.state = "building"
    /\ Len(conf.chain) = 3
    /\ conf.chain[2][1] = "headers"
    /\ conf.urls = <<"::bad", "http://r1">>
    /\ conf.headers = SomeHeaders({<<"x-app", "a">>})
    /\ conf.proxy = None
    /\ conf.authentication = NoAuth

ConfigurationErrors == {"InvalidHeaderName", "InvalidHeaderValue", "Io", "Proxy"}

BadHeaderName(c) == c.headers.some /\ \E nv \in c.headers.map : nv[1] = "bad name"

BadHeaderValue(c) ==
    \/ c.headers.some /\ \E nv \in c.headers.map : nv[2] = "a\n"
    \/ c.authentication.kind = "Bearer" /\ c.authentication.token = "tok\n"

BadProxy(c) == c.proxy = "::bad"

\* the step is a call of from_conf or from_url
ConstructStep == conf.state = "building" /\ conf'.state = "moved"

\* C19: configuration errors are raised by construction and by nothing else.
\* A call of from_conf or from_url on a configuration with a malformed header
\* name or value or a malformed proxy URL, or whose transport cannot be
\* built, ends in a Configuration error and returns no client; a client is
\* returned only for a well-formed configuration; and no operation on a
\* constructed client returns a Configuration error: the errors it returns
\* are HttpCall errors.
C19_ConfigurationErrorsOnlyAtConstruction ==
    [][ /\ ConstructStep =>
              /\ client'.state \in {"built", "failed"}
              /\ (BadHeaderName(conf) \/ BadHeaderValue(conf) \/ BadProxy(conf)) =>
                    client'.state = "failed"
              /\ BadHeaderName(conf) => client'.err = "InvalidHeaderName"
              /\ (BadHeaderValue(conf) /\ ~BadHeaderName(conf)) =>
                    client'.err = "InvalidHeaderValue"
              /\ client'.state = "failed" =>
                    /\ client'.err \in ConfigurationErrors
                    /\ client'.urls = <<>>
              /\ client'.state = "built" => client'.err = None
        /\ client'.state # "built" => (ex'.phase = "idle" /\ returned' = <<>>)
        /\ client.state = "built" => client'.state = "built" /\ client'.err = None
        /\ \A k \in 1..Len(returned') :
              returned'[k].kind = "Err" => returned'[k].variant \in HttpCallVariants
      ]_vars

C19_Witness ==
    /\ client.state = "failed"
    /\ client.err = "InvalidHeaderValue"
    /\ client.urls = <<>>
    /\ returned = <<>>

\* the list 1, 2, .., n
Identity(n) == [k \in 1..n |-> k]

\* C20: the client's endpoint set is the configured URL list in
\* configuration order (the one URL given to from_url) and never changes
\* after construction: no step of a facade call and no call outcome modifies
\* the client.  Every call, the first as well as one made after earlier calls
\* have returned, builds its operations from that same list in that order and
\* starts from nothing but it, so its outcome does not depend on the calls
\* made before it.
C20_EndpointSetIsFixed ==
    [][ /\ (ConstructStep /\ client'.state = "built") =>
              \/ client'.urls = conf.urls
              \/ conf = NewConf /\ \E u \in UrlSet : client'.urls = <<u>>
        /\ client.state = "built" => client' = client
        /\ ex'.phase # "idle" =>
              /\ client'.state = "built"
              /\ ex'.calls = Identity(Len(client'.urls))
              /\ \A i \in 1..Len(client'.urls) : ex'.url[i] = client'.urls[i]
        /\ ncalls' = ncalls + 1 =>
              /\ ex' = BuildCalls(get_subjects(FALSE), client.urls, Identity(Len(client.urls)))
              /\ net' = [i \in Ids |-> NoNet]
              /\ returned' = <<>>
      ]_vars

C20_Witness ==
    /\ ncalls = 2
    /\ client.urls = <<"::bad", "http://r1">>
    /\ ex.phase = "resolved"
    /\ returned = <<OkRes(<<"s2">>, 2)>>
    /\ ex.res[1].kind = "Err"

\* C21: with exactly one configured endpoint the call hands over one outcome
\* at most, and it is the outcome of that endpoint's operation: the decoded
\* value exactly when the response has a 2xx status and a body that decodes,
\* and otherwise the operation's own error, wrapped as HttpCall.
C21_SingleEndpointOutcome ==
    (client.state = "built" /\ Len(client.urls) = 1 /\ Len(ex.calls) = 1) =>
        /\ Len(returned) <= 1
        /\ ex.phase = "resolved" => Len(returned) = 1
        /\ Len(returned) = 1 =>
              /\ returned[1].kind \in {"Ok", "Err"}
              /\ returned[1].src = 1
              /\ returned[1].kind = "Ok" <=>
                    /\ UrlParses(ex.url[1])
                    /\ net[1].hdr = "ok"
                    /\ net[1].status \in 200..299
                    /\ Parses(ex.op.target, net[1].body)
              /\ returned[1].kind = "Ok" =>
                    returned[1].val = Decode(ex.op.target, net[1].body)
              /\ returned[1].kind = "Err" =>
                    /\ OpResult(1).kind = "Err"
                    /\ returned[1].variant = <<"HttpCall", OpResult(1).variant>>
                    /\ returned[1].status = OpResult(1).status
                    /\ returned[1].body = OpResult(1).body
                    /\ returned[1].url = OpResult(1).url

C21_Witness ==
    /\ client.state = "built"
    /\ Len(client.urls) = 1
    /\ Len(ex.calls) = 1
    /\ ex.phase = "resolved"
    /\ net[1].status = 200
    /\ returned = <<OkRes(<<"s1">>, 1)>>

\* the requests the transport was handed for the call in progress
Requests == {i \in Ops : ex.req[i] # NoReq}

\* C22: every request of post_new_subject_version(subject, schema, normalize)
\* is a POST to <base>/subjects/{subject}/versions?normalize={normalize},
\* with the flag rendered as true or false.
C22_RegisterPathHasNormalize ==
    \A s \in SubjectSet, sch \in SchemaSet, n \in BOOLEAN :
        ex.op = post_new_subject_version(s, sch, n) =>
            \A i \in Requests :
                /\ ex.req[i].method = "POST"
                /\ ex.req[i].url =
                       ex.url[i] \o "/subjects/" \o s \o "/versions?normalize=" \o Bool(n)

\* C23: every request handed to the transport, for any facade method and any
\* endpoint, carries the header Accept: application/vnd.schemaregistry.v1+json
\* and no other Accept value, whatever its method and with or without a body.
C23_EveryRequestHasAccept ==
    /\ {<<o.method, o.body.some>> : o \in FacadeOps} =
          {<<"GET", FALSE>>, <<"DELETE", FALSE>>, <<"POST", TRUE>>,
           <<"PUT", TRUE>>, <<"PUT", FALSE>>}
    /\ \A i \in Requests :
          /\ <<"accept", "application/vnd.schemaregistry.v1+json">> \in ex.req[i].headers
          /\ \A h \in ex.req[i].headers :
                h[1] = "accept" => h[2] = "application/vnd.schemaregistry.v1+json"

C23_Witness ==
    /\ Len(ex.calls) = 2
    /\ Requests = {1, 2}
    /\ ex.req[1].method = "PUT"
    /\ ex.req[1].body.some
    /\ <<"accept", "application/vnd.schemaregistry.v1+json">> \in ex.req[2].headers

\* C26: one call on a client with N endpoints builds exactly N operations,
\* the k-th for the k-th configured URL; every request they issue has the
\* method and the body of the call and the URL <its base URL><the call's
\* path>, so any two of them differ in the base URL only.
C26_OneOperationPerUrl ==
    ex.phase # "idle" =>
        /\ Len(ex.calls) = Len(client.urls)
        /\ {i \in Ids : ex.pc[i] # "none"} = 1..Len(client.urls)
        /\ \A k \in Ops : ex.calls[k] = k /\ ex.url[k] = client.urls[k]
        /\ \A i \in Requests :
              /\ ex.req[i].method = ex.op.method
              /\ ex.req[i].body = ex.op.body
              /\ ex.req[i].url = client.urls[i] \o ex.op.path
        /\ \A i \in Requests, j \in Requests :
              /\ ex.req[i].method = ex.req[j].method
              /\ ex.req[i].body = ex.req[j].body
              /\ ex.req[i].headers = ex.req[j].headers
              /\ client.urls[i] = client.urls[j] => ex.req[i].url = ex.req[j].url

C26_Witness ==
    /\ client.urls = <<"http://r1", "http://r2">>
    /\ Requests = {1, 2}
    /\ ex.req[1].method = "POST"
    /\ ex.req[1].body.some
    /\ ex.req[1].url # ex.req[2].url

\* C24: on a registry that stores what it is sent, a program that registers
\* a schema and then fetches by the id it was returned gets the fetch
\* answered with Ok, and the value's schema and schema type are those of the
\* schema it registered.
C24_RegisterThenFetchRoundTrip ==
    caller.step = "fetching" =>
        /\ ex.op = get_schema_by_id(caller.id)
        /\ caller.id \in 1..Len(registry)
        /\ ex.phase = "resolved" => Len(returned) = 1
        /\ Len(returned) = 1 =>
              /\ returned[1].kind = "Ok"
              /\ returned[1].val.schema = caller.schema.schema
              /\ returned[1].val.schema_type = caller.schema.schema_type

C24_Witness ==
    /\ caller.step = "fetching"
    /\ Len(client.urls) = 2
    /\ caller.id = 2
    /\ caller.schema.schema_type = "Protobuf"
    /\ Len(returned) = 1
    /\ returned[1].kind = "Ok"
    /\ returned[1].val.schema_type = "Protobuf"

\* C25: building the auth header twice from the same Authentication gives
\* the same result both times; the name is authorization; for Basic("user",
\* "pass") the value is "Basic " followed by the standard base64 text of
\* "user:pass", and for Bearer(t) it is "Bearer " followed by t.
C25_AuthHeadersDeterministic ==
    /\ \A k \in 1..Len(pout) :
          /\ pout[k] = pout[1]
          /\ pout[k].err \in {None, "InvalidHeaderValue"}
          /\ pout[k].err = None =>
                /\ pout[k].val[1] = "authorization"
                /\ pin.kind = "Bearer" => pout[k].val[2] = "Bearer " \o pin.token
                /\ pin = Basic("user", "pass") => pout[k].val[2] = "Basic dXNlcjpwYXNz"
                /\ pin = Basic("user", "pw") => pout[k].val[2] = "Basic dXNlcjpwdw=="
                /\ pin = Basic("user", None) => pout[k].val[2] = "Basic dXNlcjo="
                /\ pin = Basic("a", "b") => pout[k].val[2] = "Basic YTpi"
                /\ pin = Basic("", "") => pout[k].val[2] = "Basic Og=="
          /\ pin.kind = "Basic" => pout[k].err = None

C25_Witness ==
    /\ pin = Basic("user", "pass")
    /\ Len(pout) = 2
    /\ pout[1] = pout[2]
    /\ pout[2].val = <<"authorization", "Basic dXNlcjpwYXNz">>

\* C27: once the call has returned a success, the executor and what the
\* caller holds no longer change whatever the transport still receives for
\* the remaining operations; the poll that returns the success drops every
\* operation still in flight without yielding a result for it and without
\* touching the transport's side of its request.
C27_LosersAreDropped ==
    [][ /\ (Len(returned) >= 1 /\ returned[1].kind = "Ok" /\ ncalls' = ncalls) =>
              /\ ex' = ex
              /\ returned' = returned
        /\ (Len(returned) = 0 /\ Len(returned') >= 1 /\ returned'[1].kind = "Ok") =>
              /\ net' = net
              /\ ex'.phase = "resolved"
              /\ ex'.inner = <<>>
              /\ \A i \in 1..Len(ex.calls) :
                    /\ ex'.pc[i] \in {"done", "dropped"}
                    /\ ex'.pc[i] = "dropped" => ex'.res[i] = NoRes
                    /\ (ex.pc[i] \in {"send", "bytes"} /\ OpResult(i) = NoRes) =>
                            ex'.pc[i] = "dropped"
      ]_vars

C27_Witness ==
    /\ ex.phase = "resolved"
    /\ Len(returned) = 1
    /\ returned[1].kind = "Ok"
    /\ returned[1].src = 1
    /\ ex.pc[2] = "dropped"
    /\ net[2].hdr = "ok"
    /\ net[2].body = "[s2]"
    /\ net[2].at = ex.polls
    /\ ex.res[2] = NoRes

\* the order of the stages of one endpoint operation within a call
StageSteps ==
    {<<"new", "send">>, <<"new", "done">>, <<"send", "bytes">>,
     <<"send", "done">>, <<"bytes", "done">>,
     <<"new", "dropped">>, <<"send", "dropped">>, <<"bytes", "dropped">>}

\* C28: an endpoint operation first awaits the response headers and then the
\* body bytes: it enters the body stage only once the headers have arrived,
\* it yields a decoded value, a JsonParse or an UpstreamError only when the
\* whole body has been read, and a transport failure while it awaits the
\* headers ends it with Unexpected without its entering the body stage.
C28_HeadersThenBody ==
    [][ \A i \in Ids :
          /\ (ncalls' = ncalls /\ ex'.pc[i] # ex.pc[i]) =>
                <<ex.pc[i], ex'.pc[i]>> \in StageSteps
          /\ ex'.pc[i] = "bytes" => net'[i].hdr = "ok"
          /\ (ex'.res[i].kind = "Ok"
               \/ ex'.res[i].variant \in {"JsonParse", "UpstreamError"}) =>
                /\ ex'.pc[i] = "done"
                /\ net'[i].hdr = "ok"
                /\ net'[i].body \notin {"none", "err"}
          /\ (ncalls' = ncalls /\ ex.pc[i] = "send" /\ net[i].hdr = "err"
                /\ ex'.pc[i] # ex.pc[i]) =>
                /\ ex'.pc[i] \in {"done", "dropped"}
                /\ ex'.pc[i] = "done" => ex'.res[i] = Unexpected(i)
      ]_vars

C28_Witness ==
    /\ Len(ex.calls) = 1
    /\ ex.polls = 3
    /\ ex.pc[1] = "done"
    /\ net[1].hdr = "ok"
    /\ net[1].status = 404
    /\ net[1].body = "junk"
    /\ net[1].at = 2
    /\ ex.res[1].variant = "UpstreamError"

\* a compatibility check is in progress and has returned the outcome of
\* endpoint operation i, whose response had a 2xx status and the body b
CheckReturned(i, b) ==
    /\ ex.op.name \in {"is_compatible", "is_fully_compatible"}
    /\ Len(returned) = 1
    /\ returned[1].src = i
    /\ net[i].hdr = "ok"
    /\ net[i].status \in 200..299
    /\ net[i].body = b

\* C29 as stated: a 2xx response whose body is {isCompatible: b} makes the
\* check return Ok(b).
C29_IsCompatibleCamelCase ==
    \A i \in Ops, b \in BOOLEAN :
        CheckReturned(i, "{isCompatible:" \o Bool(b) \o "}") =>
            /\ returned[1].kind = "Ok"
            /\ returned[1].val = b

\* C29, amended: the check returns exactly the boolean of the winning
\* endpoint's response when the wrapper object names it is_compatible:
\* a 2xx response with the body {is_compatible: b} yields Ok(b), an Ok(b)
\* comes of such a response only, and the body {isCompatible: b} is a
\* JsonParse error for the type CompatibilityCheck.
C29_ReturnsIsCompatibleFlag ==
    \A i \in Ops :
        /\ \A b \in BOOLEAN :
              /\ CheckReturned(i, "{is_compatible:" \o Bool(b) \o "}") =>
                    /\ returned[1].kind = "Ok"
                    /\ returned[1].val = b
              /\ CheckReturned(i, "{isCompatible:" \o Bool(b) \o "}") =>
                    /\ returned[1].kind = "Err"
                    /\ returned[1].variant = <<"HttpCall", "JsonParse">>
                    /\ returned[1].target = "schema_registry::types::CompatibilityCheck"
        /\ (CheckReturned(i, net[i].body) /\ returned[1].kind = "Ok") =>
              /\ returned[1].val \in BOOLEAN
              /\ net[i].body = "{is_compatible:" \o Bool(returned[1].val) \o "}"

C29_Witness ==
    /\ CheckReturned(2, "{is_compatible:false}")
    /\ ex.op.name = "is_fully_compatible"
    /\ net[1].body = "{is_compatible:true}"
    /\ net[1].status = 404
    /\ returned[1].kind = "Ok"
    /\ returned[1].val = FALSE

\* the upper-case form of an ASCII letter, any other byte as it is
AsciiUpper(c) == IF c \in 97..122 THEN c - 32 ELSE c

UpperCased(str) == [k \in 1..Len(str) |-> AsciiUpper(str[k])]

\* C30: from_str answers Ok exactly for the strings that read AVRO, PROTOBUF
\* or JSON once their ASCII letters are put in upper case, with the
\* SchemaType of that name; for every other string it answers
\* InvalidSchemaType carrying the string as it was given; and the Display
\* rendering of every SchemaType parses back to it.
C30_SchemaTypeFromStr ==
    /\ \A t \in SchemaTypes : from_str(SchemaTypeDisplay(t)) = [kind |-> "Ok", val |-> t]
    /\ Len(pout) = 1 =>
          LET up == UpperCased(pin)
              r  == pout[1]
          IN  /\ up = <<65, 86, 82, 79>> => r = [kind |-> "Ok", val |-> "Avro"]
              /\ up = <<80, 82, 79, 84, 79, 66, 85, 70>> =>
                    r = [kind |-> "Ok", val |-> "Protobuf"]
              /\ up = <<74, 83, 79, 78>> => r = [kind |-> "Ok", val |-> "Json"]
              /\ up \notin {<<65, 86, 82, 79>>, <<80, 82, 79, 84, 79, 66, 85, 70>>,
                            <<74, 83, 79, 78>>} =>
                    r = [kind |-> "Err", variant |-> "InvalidSchemaType",
                         message |-> pin]

C30_Witness ==
    /\ pin = <<112, 114, 111, 116, 111, 66, 117, 102>>
    /\ pout = <<[kind |-> "Ok", val |-> "Protobuf"]>>

\* C31: the caller is handed an error only when every endpoint operation of
\* the call has completed with an error: none is still to be polled or was
\* dropped, none has produced a success, and the transport holds a failure
\* for each of them; while an operation is pending nothing is returned, so
\* an error that precedes a success is never reported.
C31_ErrorOnlyWhenAllFailed ==
    /\ \A k \in 1..Len(returned) :
          returned[k].kind = "Err" =>
              /\ ex.inner = <<>>
              /\ \A i \in Ops :
                    /\ ex.pc[i] = "done"
                    /\ ex.res[i].kind = "Err"
                    /\ OpResult(i).kind = "Err"
    /\ (\E i \in Ops : ex.pc[i] \in {"new", "send", "bytes"}) => returned = <<>>
    /\ (\E i \in Ops : ex.res[i].kind = "Ok") =>
           \A k \in 1..Len(returned) : returned[k].kind = "Ok"

C31_Witness ==
    /\ Len(ex.calls) >= 2
    /\ Len(returned) = 1
    /\ returned[1].kind = "Err"
    /\ ex.polls >= 3
    /\ net[1].at < net[2].at
    /\ ex.res[1].variant # ex.res[2].variant

\* what operation i of the call e yields at a poll, from its URL and what the
\* transport holds for it (NoRes when it is not ready)
ReadyResult(e, i) ==
    IF ~UrlParses(e.url[i]) THEN Unexpected(i)
    ELSE IF net[i].hdr = "err" THEN Unexpected(i)
    ELSE IF net[i].hdr = "ok" /\ net[i].body = "err" THEN Unexpected(i)
    ELSE IF net[i].hdr = "ok" /\ net[i].body # "none"
    THEN parse_response(e.op.target, RequestUrl(e.op, e.url[i]), net[i].status, net[i].body, i)
    ELSE NoRes

\* the operations of the list s that are ready with an error, in list order
ReadyErrors(e, s) == SelectSeq(s, LAMBDA i : ReadyResult(e, i).kind = "Err")

\* one poll took the call from e to f and examined the ready operations in
\* list order
InListOrder(e, f) ==
    LET inn == e.inner
        oks == {k \in 1..Len(inn) : ReadyResult(e, inn[k]).kind = "Ok"}
        w   == CHOOSE k \in oks : \A m \in oks : k <= m
    IN  IF oks # {}
        THEN /\ f.phase = "resolved"
             /\ f.out = e.out \o <<ReadyResult(e, inn[w])>>
             /\ f.done = e.done \o ReadyErrors(e, SubSeq(inn, 1, w - 1)) \o <<inn[w]>>
             /\ \A k \in (w + 1)..Len(inn) :
                    f.pc[inn[k]] = "dropped" /\ f.res[inn[k]] = NoRes
        ELSE IF ReadyErrors(e, inn) = inn
        THEN /\ f.phase = "resolved"
             /\ f.out = e.out \o <<ReadyResult(e, inn[Len(inn)])>>
             /\ f.done = e.done \o inn
        ELSE /\ f.phase = "pending"
             /\ f.out = e.out
             /\ f.done = e.done \o ReadyErrors(e, inn)
             /\ f.inner = SelectSeq(inn, LAMBDA i : ReadyResult(e, i) = NoRes)

\* C32: the operations that are ready in one poll of the executor are
\* examined in list order, for the configured list and for the list with two
\* positions exchanged alike: the ready errors in front of the first ready
\* success are consumed in list order and that success is returned, the
\* operations behind it being dropped unexamined; when every remaining
\* operation is a ready failure the error of the last list position is
\* reported; otherwise the ready errors are consumed and the call stays
\* pending.
C32_SamePollListOrder ==
    [][(ex.phase = "pending" /\ ex2.phase = "pending" /\ ex'.polls = ex.polls + 1)
          => /\ InListOrder(ex, ex')
             /\ InListOrder(ex2, ex2')]_vars

C32_Witness ==
    /\ ex.phase = "resolved"
    /\ ex2.phase = "resolved"
    /\ ex.calls = <<1, 2>>
    /\ ex2.calls = <<2, 1>>
    /\ net[1].at = net[2].at
    /\ ex.out[1].kind = "Err"
    /\ ex.out[1].src = 2
    /\ ex2.out[1].src = 1
    /\ ex.done = <<1, 2>>
    /\ ex2.done = <<2, 1>>

\* every operation of the call has completed: the transport holds a whole
\* response or a failure for each (or its URL cannot be requested at all)
AllCompleted == \A i \in Ops : OpResult(i) # NoRes

\* C33: on a non-empty endpoint list, once every endpoint operation of a
\* pending call has completed, with a success or with an error, the call
\* eventually resolves and hands the caller one outcome, given that the task
\* is polled again after an operation woke it.
C33_CallEventuallyResolves ==
    (ex.phase = "pending" /\ Len(ex.calls) >= 1 /\ AllCompleted)
        ~> (ex.phase = "resolved" /\ Len(returned) = 1
            /\ returned[1].kind \in {"Ok", "Err"})

C33_Witness ==
    /\ ex.phase = "resolved"
    /\ Len(ex.calls) >= 2
    /\ AllCompleted
    /\ ex.polls >= 3
    /\ Len(returned) = 1
    /\ returned[1].kind = "Err"
    /\ ex.res[1].variant = "UpstreamError"

\* endpoint i has received the register request of the call e and stored
\* the schema (n is the state of the transport)
Applied(e, n, i) ==
    /\ i \in 1..Len(e.calls)
    /\ e.req[i] # NoReq
    /\ IsRegister(e.req[i], e.url[i])
    /\ n[i].hdr = "ok"

\* the register request of operation i is out and its endpoint has not
\* acted on it yet
Outstanding(e, n, i) ==
    /\ i \in 1..Len(e.calls)
    /\ e.req[i] # NoReq
    /\ IsRegister(e.req[i], e.url[i])
    /\ n[i].hdr = "none"

\* C34: a register call on two or more endpoints sends the same POST, with
\* the schema as its body, to every endpoint as soon as it is polled,
\* whichever endpoint wins; when it has returned Ok the winning endpoint has
\* stored the schema under the id returned; and the executor neither undoes
\* nor prevents the mutation elsewhere: no step removes a stored schema, only
\* an endpoint's own step changes the store, and a request that is
\* outstanding before a poll of the executor, or before the caller's next
\* call is built, is either answered or still outstanding at the endpoint
\* of a dropped operation.
C34_MutationReachesEveryEndpoint ==
    [][/\ (caller'.step = "registering" /\ Len(ex'.calls) >= 2 /\ ex'.polls >= 1) =>
              /\ \A i \in 1..Len(ex'.calls) :
                     UrlParses(ex'.url[i]) =>
                         /\ ex'.req[i] = Request(ex'.op, ex'.url[i])
                         /\ ex'.req[i].method = "POST"
                         /\ ex'.req[i].body = Json(Serialize(caller'.schema))
              /\ (Len(returned') = 1 /\ returned'[1].kind = "Ok") =>
                     /\ Applied(ex', net', returned'[1].src)
                     /\ returned'[1].val \in 1..Len(registry')
                     /\ registry'[returned'[1].val] = Serialize(caller'.schema)
       /\ Len(registry) <= Len(registry')
       /\ SubSeq(registry', 1, Len(registry)) = registry
       /\ net' = net => registry' = registry
       /\ (caller.step = "registering" /\ ex'.polls = ex.polls + 1) =>
              \A j \in Ops :
                  Outstanding(ex, net, j) => (Outstanding(ex', net', j) /\ ex'.pc[j] \in {"send", "dropped"})
      ]_vars

C34_Witness ==
    /\ caller.step = "registering"
    /\ Len(ex.calls) >= 2
    /\ Len(returned) = 1
    /\ returned[1].kind = "Ok"
    /\ \E j \in Ops :
          /\ j # returned[1].src
          /\ ex.pc[j] = "dropped"
          /\ Applied(ex, net, j)
          /\ net[j].at = ex.polls
          /\ net[returned[1].src].at < ex.polls

\* C35: when the read of the response body fails after the status was
\* received, the operation yields Unexpected, with no URL, status or body
\* field, whether the status was 2xx or not, and the caller that is handed
\* this operation's outcome receives HttpCall(Unexpected); an operation
\* that yielded UpstreamError or JsonParse had its body read to the end.
C35_BodyReadFailureIsUnexpected ==
    \A i \in Ops :
        /\ (net[i].hdr = "ok" /\ net[i].body = "err") =>
              /\ ex.res[i] \in {NoRes, Unexpected(i)}
              /\ (ex.pc[i] = "done" => ex.res[i] = Unexpected(i))
              /\ (returned # <<>> /\ returned[1].src = i) =>
                    /\ returned[1].kind = "Err"
                    /\ returned[1].variant = <<"HttpCall", "Unexpected">>
                    /\ returned[1].status = 0
        /\ (ex.res[i].kind = "Err" /\ ex.res[i].variant \in {"UpstreamError", "JsonParse"}) =>
              /\ net[i].hdr = "ok"
              /\ net[i].body \in BodySet
              /\ ex.res[i].body = Utf8Lossy(net[i].body)

C35_Witness ==
    /\ Len(ex.calls) = 2
    /\ net[1].hdr = "ok"
    /\ net[2].hdr = "ok"
    /\ net[1].status \in 200..299
    /\ net[2].status \notin 200..299
    /\ net[1].body = "err"
    /\ net[2].body = "err"
    /\ ex.res[1] = Unexpected(1)
    /\ ex.res[2] = Unexpected(2)
    /\ returned # <<>>
    /\ returned[1].variant = <<"HttpCall", "Unexpected">>

\* an operation with the unit result is in progress and has returned the
\* outcome of endpoint operation i, whose response had a 2xx status and the
\* body b
UnitReturned(i, b) ==
    /\ ex.op.target = UnitT
    /\ Len(returned) = 1
    /\ returned[1].src = i
    /\ net[i].hdr = "ok"
    /\ net[i].status \in 200..299
    /\ net[i].body = b

\* C36: for an operation whose declared result is unit, a 2xx response is
\* reported as Ok(()) exactly when its body is the JSON value null; a 2xx
\* response with an empty body or with a JSON object as its body is reported
\* as a JsonParse error that names the unit type and carries the body.
C36_UnitResultNeedsNull ==
    \A i \in Ops :
        /\ UnitReturned(i, "null") => returned[1] = OkRes(NoVal, i)
        /\ \A b \in {"", "{id:1}"} :
              UnitReturned(i, b) =>
                  /\ returned[1].kind = "Err"
                  /\ returned[1].variant = <<"HttpCall", "JsonParse">>
                  /\ returned[1].target = "()"
                  /\ returned[1].body = b
        /\ (UnitReturned(i, net[i].body) /\ returned[1].kind = "Ok") =>
              net[i].body = "null"

C36_Witness ==
    /\ UnitReturned(2, "")
    /\ ex.op.name = "pause_exporter"
    /\ net[1].status = 200
    /\ net[1].body = "{id:1}"
    /\ ex.res[1].variant = "JsonParse"
    /\ returned[1].variant = <<"HttpCall", "JsonParse">>

\* C37: the Debug and the Display rendering of an Authentication do not
\* depend on the bearer token or on the basic-auth password: two values of
\* the same kind, with the same username when they are Basic, render
\* identically whatever their tokens or passwords, and the rendering of a
\* value is the fixed text around its username, with asterisks where the
\* secret would stand.
C37_RenderingHidesSecrets ==
    pout # <<>> =>
        /\ (pin[1].kind = pin[2].kind /\ pin[1].username = pin[2].username) =>
              pout[1] = pout[2]
        /\ \A k \in 1..2 :
              /\ pin[k].kind = "Bearer" =>
                    /\ pout[k].debug = "BearerAuthentication { token: ****** }"
                    /\ pout[k].display = "Bearer ******"
              /\ (pin[k].kind = "Basic" /\ pin[k].username = "user") =>
                    /\ pout[k].debug = "BasicAuthentication { username: user, password ****** }"
                    /\ pout[k].display = "Basic user:******"

C37_Witness ==
    /\ pin = <<Basic("user", "pass"), Basic("user", "pw")>>
    /\ pout # <<>>
    /\ pout[1] = pout[2]
    /\ pout[1].display = "Basic user:******"

\* the values the header map m holds under the name authorization
Authorizations(m) == {nv[2] : nv \in {x \in m : x[1] = "authorization"}}

\* C38: build_http_client inserts the authentication header after the static
\* headers: when an authentication is configured the client's default
\* headers hold exactly one Authorization value, the one derived from the
\* authentication, also when the static map names Authorization (in any
\* case of letters), and every static header of another name is kept; when
\* none is configured the default headers are the static headers, and a
\* static Authorization header stays.
C38_AuthenticationHeaderWins ==
    (pout # <<>> /\ pout[1].err = None) =>
        LET static == IF pin.headers.some THEN pin.headers.map ELSE {}
            dflt   == pout[1].val
        IN  /\ pin.authentication.kind = "Bearer" =>
                  Authorizations(dflt) = {"Bearer " \o pin.authentication.token}
            /\ pin.authentication = Basic("user", "pw") =>
                  Authorizations(dflt) = {"Basic dXNlcjpwdw=="}
            /\ pin.authentication = Basic("user", None) =>
                  Authorizations(dflt) = {"Basic dXNlcjo="}
            /\ {nv \in dflt : nv[1] # "authorization"}
                  = {nv \in static : nv[1] \notin {"authorization", "Authorization"}}
            /\ pin.authentication = NoAuth =>
                  /\ Cardinality(dflt) = Cardinality(static)
                  /\ Authorizations(dflt)
                        = {nv[2] : nv \in {x \in static :
                                              x[1] \in {"authorization", "Authorization"}}}

C38_Witness ==
    /\ pout # <<>>
    /\ pin.headers = SomeHeaders({<<"Authorization", "Bearer old">>})
    /\ pin.authentication = Basic("user", "pw")
    /\ pout[1] = Ok({<<"authorization", "Basic dXNlcjpwdw==">>})

====
